---- MODULE Spec2Model ----
(***************************************************************************)
(* A model of the hroute HTTP route multiplexer: pattern parsing, the      *)
(* route tree (insertion with node splitting, lookup without               *)
(* backtracking), method dispatch, redirect resolution and path building.  *)
(*                                                                         *)
(* Strings are sequences of one-character strings, so that they can be     *)
(* indexed and sliced as the Go code does; Go's 0-based s[i:j] becomes     *)
(* SubSeq(s, i+1, j).  Pointers to nodes and patterns are indices into the *)
(* heaps `nodes` and `pats`; 0 is nil.                                     *)
(***************************************************************************)
EXTENDS Integers, Sequences, FiniteSets, TLC

VARIABLES
    family,           \* the routes this run's Handle calls are drawn from
    nodes,            \* heap of tree nodes; nodes[1] is Router.root
    pats,             \* heap of *Pattern values returned by Handle
    maxParams,        \* Router.maxParams
    notFound,         \* Router.NotFound
    methodNotAllowed, \* Router.MethodNotAllowed
    routes,           \* the successful Handle calls so far, in order
    last,             \* the last call made on the router and what it returned
    calls,            \* the HandlerToUse calls in progress, one for each goroutine
    bufs              \* heap of the arrays that back Params slices

vars == <<family, nodes, pats, maxParams, notFound, methodNotAllowed, routes, last,
          calls, bufs>>

-----------------------------------------------------------------------------
(* Bounds of the model. *)

\* Longest request path tried.
MaxPathLen == 3

\* Longest parameter value handed to Pattern.Path.
MaxValLen == 2

\* Longest string handed to ParsePattern.
MaxPatternLen == 5

\* The bytes request paths are made of.
Alphabet == {"/", "a", "b"}

\* The bytes parameter values are made of.
ValueAlphabet == {"/", "a"}

Strings(A, n) == UNION {[1..k -> A] : k \in 0..n}

Paths == Strings(Alphabet, MaxPathLen)

\* The bytes the strings handed to ParsePattern are made of.
PatternAlphabet == {"/", ":", "*", "x"}

PatternStrings == Strings(PatternAlphabet, MaxPatternLen)

Values == Strings(ValueAlphabet, MaxValLen)

RequestMethods == {"GET", "PUT", "CONNECT"}

-----------------------------------------------------------------------------
(* String helpers. *)

\* s[i:] of Go, i 0-based.
From(s, i) == SubSeq(s, i + 1, Len(s))

\* s[:i] of Go.
Upto(s, i) == SubSeq(s, 1, i)

\* bytes.IndexByte / strings.IndexByte: the 1-based index of the first b in s, or 0.
IndexByte(s, b) ==
    IF \E i \in 1..Len(s) : s[i] = b
    THEN CHOOSE i \in 1..Len(s) : s[i] = b /\ \A j \in 1..(i - 1) : s[j] # b
    ELSE 0

\* strings.IndexAny(s, ":*"), 1-based, or 0.
IndexMarker(s) ==
    IF \E i \in 1..Len(s) : s[i] \in {":", "*"}
    THEN CHOOSE i \in 1..Len(s) :
            s[i] \in {":", "*"} /\ \A j \in 1..(i - 1) : s[j] \notin {":", "*"}
    ELSE 0

HasPrefix(s, b) == Len(s) > 0 /\ s[1] = b

HasSuffix(s, b) == Len(s) > 0 /\ s[Len(s)] = b

RECURSIVE Concat(_)
Concat(ss) == IF ss = <<>> THEN <<>> ELSE Head(ss) \o Concat(Tail(ss))

\* commonPrefix returns any prefix that s and t have in common.
commonPrefix(s, t) ==
    LET m == IF Len(s) < Len(t) THEN Len(s) ELSE Len(t)
        k == CHOOSE k \in 0..m :
                /\ \A i \in 1..k : s[i] = t[i]
                /\ (k < m => s[k + 1] # t[k + 1])
    IN  Upto(s, k)

\* pathElem splits the first path element off p.
pathElem(p) ==
    LET i == IndexByte(p, "/")
    IN  IF i > 0 THEN <<Upto(p, i - 1), From(p, i - 1)>> ELSE <<p, <<>>>>

-----------------------------------------------------------------------------
(* CleanPath: the canonical form of a path.  Empty segments and "."        *)
(* segments are dropped, ".." removes the segment before it, the result is *)
(* rooted, and a trailing slash is kept.                                   *)

RECURSIVE Segments(_)
Segments(p) ==
    LET i == IndexByte(p, "/")
    IN  IF i = 0 THEN <<p>> ELSE <<Upto(p, i - 1)>> \o Segments(From(p, i))

RECURSIVE CleanSegs(_, _)
CleanSegs(segs, stack) ==
    IF segs = <<>> THEN stack
    ELSE LET s == Head(segs)
         IN  IF s = <<>> \/ s = <<".">> THEN CleanSegs(Tail(segs), stack)
             ELSE IF s = <<".", ".">>
                  THEN CleanSegs(Tail(segs),
                                 IF stack = <<>> THEN stack ELSE Upto(stack, Len(stack) - 1))
                  ELSE CleanSegs(Tail(segs), Append(stack, s))

RECURSIVE JoinSegs(_)
JoinSegs(stack) ==
    IF stack = <<>> THEN <<>> ELSE <<"/">> \o Head(stack) \o JoinSegs(Tail(stack))

CleanPath(p) ==
    IF p = <<>> THEN <<"/">>
    ELSE LET segs     == Segments(p)
             joined   == JoinSegs(CleanSegs(segs, <<>>))
             trailing == \/ (Len(p) > 1 /\ HasSuffix(p, "/"))
                         \/ segs[Len(segs)] = <<".">>
         IN  IF joined = <<>> THEN <<"/">>
             ELSE IF trailing THEN Append(joined, "/") ELSE joined

-----------------------------------------------------------------------------
(* Patterns (pattern.go). *)

\* The Pattern struct.
Pattern(static, pvars, catchAll) ==
    [static |-> static, vars |-> pvars, catchAll |-> catchAll,
     staticSize |-> Len(Concat(static))]

\* The loop of ParsePattern: p is the rest of the string still to parse.
RECURSIVE parseLoop(_, _, _)
parseLoop(p, static, pvars) ==
    IF Len(p) = 0 THEN [err |-> "", pat |-> Pattern(static, pvars, FALSE)]
    ELSE
    LET i == IndexMarker(p)
    IN  IF i = 0 THEN [err |-> "", pat |-> Pattern(Append(static, p), pvars, FALSE)]
        ELSE IF i = 1 THEN [err |-> "panic: unexpected empty path segment"]
        ELSE IF p[i - 1] # "/" THEN [err |-> "no / before wildcard segment"]
        ELSE
        LET static1 == Append(static, Upto(p, i - 1))
            q       == From(p, i - 1)
            j       == IndexByte(q, "/")
        IN  IF j = 0
            THEN [err |-> "",
                  pat |-> Pattern(Append(static1, <<>>), Append(pvars, Tail(q)),
                                  q[1] = "*")]
            ELSE IF q[1] = "*" THEN [err |-> "catch-all route not at end of path"]
            ELSE LET v == SubSeq(q, 2, j - 1)
                 IN  IF IndexMarker(v) # 0
                     THEN [err |-> "no / before wildcard segment"]
                     ELSE parseLoop(From(q, j - 1), Append(static1, <<>>),
                                    Append(pvars, v))

\* (ParsePatternUnchecked is ParsePattern without the two checks made
\* before the loop.)
ParsePatternUnchecked(p) == parseLoop(p, <<>>, <<>>)

ParsePattern(p) ==
    IF CleanPath(p) # p THEN [err |-> "pattern is not clean"]
    ELSE IF ~HasPrefix(p, "/") THEN [err |-> "path must start with /"]
    ELSE parseLoop(p, <<>>, <<>>)

Keys(pat) == pat.vars

CatchAll(pat) == pat.catchAll

\* (stringFromColon is stringFrom writing every placeholder with a colon.)
RECURSIVE stringFromColon(_, _)
stringFromColon(pat, i) ==
    IF i > Len(pat.static) THEN <<>>
    ELSE LET s == pat.static[i]
         IN  (IF s # <<>> THEN s
              ELSE <<":">> \o pat.vars[((i - 1) \div 2) + 1])
             \o stringFromColon(pat, i + 1)

\* Pattern.String.
RECURSIVE stringFrom(_, _)
stringFrom(pat, i) ==
    IF i > Len(pat.static) THEN <<>>
    ELSE LET s == pat.static[i]
         IN  (IF s # <<>> THEN s
              ELSE (IF pat.catchAll /\ i = Len(pat.static) THEN <<"*">> ELSE <<":">>)
                   \o pat.vars[((i - 1) \div 2) + 1])
             \o stringFrom(pat, i + 1)

PatternString(pat) == stringFrom(pat, 1)

\* The loop of Pattern.Path over p.static, from element i (1-based, so Go's
\* vals[i/2] is vals[((i - 1) \div 2) + 1]).
\* (pathFromKeepSlash is pathFrom with the catch-all value left untrimmed.)
RECURSIVE pathFromKeepSlash(_, _, _)
pathFromKeepSlash(pat, vals, i) ==
    IF i > Len(pat.static) THEN [err |-> "", path |-> <<>>]
    ELSE LET elem == pat.static[i]
         IN  IF elem # <<>>
             THEN LET r == pathFromKeepSlash(pat, vals, i + 1)
                  IN  IF r.err # "" THEN r ELSE [err |-> "", path |-> elem \o r.path]
             ELSE LET val == vals[((i - 1) \div 2) + 1]
                  IN  IF i = Len(pat.static) /\ pat.catchAll
                      THEN IF ~HasPrefix(val, "/")
                           THEN [err |-> "catch-all parameter without / prefix"]
                           ELSE [err |-> "", path |-> val]
                      ELSE IF val = <<>> THEN [err |-> "empty parameter"]
                      ELSE LET r == pathFromKeepSlash(pat, vals, i + 1)
                           IN  IF r.err # "" THEN r
                               ELSE [err |-> "", path |-> val \o r.path]

RECURSIVE pathFrom(_, _, _)
pathFrom(pat, vals, i) ==
    IF i > Len(pat.static) THEN [err |-> "", path |-> <<>>]
    ELSE LET elem == pat.static[i]
         IN  IF elem # <<>>
             THEN LET r == pathFrom(pat, vals, i + 1)
                  IN  IF r.err # "" THEN r ELSE [err |-> "", path |-> elem \o r.path]
             ELSE LET val == vals[((i - 1) \div 2) + 1]
                  IN  IF i = Len(pat.static) /\ pat.catchAll
                      THEN IF ~HasPrefix(val, "/")
                           THEN [err |-> "catch-all parameter without / prefix"]
                           ELSE [err |-> "", path |-> Tail(val)]
                      ELSE IF val = <<>> THEN [err |-> "empty parameter"]
                      ELSE LET r == pathFrom(pat, vals, i + 1)
                           IN  IF r.err # "" THEN r
                               ELSE [err |-> "", path |-> val \o r.path]

\* (PathTooFewOnly is Path refusing too few values only.)
PathTooFewOnly(pat, vals) ==
    IF Len(vals) < Len(pat.vars) THEN [err |-> "too few parameters"]
    ELSE pathFrom(pat, vals, 1)

\* Pattern.Path.
Path(pat, vals) ==
    IF Len(vals) # Len(pat.vars) THEN [err |-> "too few parameters"]
    ELSE pathFrom(pat, vals, 1)

-----------------------------------------------------------------------------
(* The route tree: insertion. *)

\* The zero node, with the given path.
NewNode(path) ==
    [path |-> path, firstBytes |-> <<>>, child |-> <<>>, wild |-> 0, catchAll |-> 0,
     handlers |-> <<>>]

\* node.entryForMethod: the index in n.handlers of the first entry whose
\* method is "*" or the given method, or 0.
entryForMethod(n, method) ==
    IF \E i \in 1..Len(n.handlers) : n.handlers[i].method \in {"*", method}
    THEN CHOOSE i \in 1..Len(n.handlers) :
            /\ n.handlers[i].method \in {"*", method}
            /\ \A j \in 1..(i - 1) : n.handlers[j].method \notin {"*", method}
    ELSE 0

\* (addChildShared is addChild giving the new child the first byte of the
\* child before it.)
addChildShared(ns, n, firstByte, n1) ==
    [ns EXCEPT ![n].child = Append(@, n1),
               ![n].firstBytes = Append(@, IF @ = <<>> THEN firstByte ELSE @[Len(@)])]

\* node.addChild, on node n of heap ns: appends child n1 under firstByte.
addChild(ns, n, firstByte, n1) ==
    [ns EXCEPT ![n].child = Append(@, n1), ![n].firstBytes = Append(@, firstByte)]

\* (setHandlerNoSwap is setHandler without the swap that keeps "*" last.)
setHandlerNoSwap(ns, n, e) ==
    LET old == entryForMethod(ns[n], e.method)
    IN  IF old # 0 /\ ns[n].handlers[old].method = e.method
        THEN [nodes |-> ns, panic |-> TRUE]
        ELSE [nodes |-> [ns EXCEPT ![n].handlers = Append(@, e)], panic |-> FALSE]

\* (setHandlerStarDup is setHandler taking the "*" entry too for an entry
\* already registered for the method.)
setHandlerStarDup(ns, n, e) ==
    LET old == entryForMethod(ns[n], e.method)
    IN  IF old # 0
        THEN [nodes |-> ns, panic |-> TRUE]
        ELSE [nodes |-> [ns EXCEPT ![n].handlers = Append(@, e)], panic |-> FALSE]

\* (setHandlerLater is setHandler leaving the entry out of a node that has
\* no handlers yet.)
setHandlerLater(ns, n, e) ==
    LET old == entryForMethod(ns[n], e.method)
    IN  IF old # 0 /\ ns[n].handlers[old].method = e.method
        THEN [nodes |-> ns, panic |-> TRUE]
        ELSE [nodes |-> ns, panic |-> FALSE]

\* (setHandlerAppendFirst is setHandler appending the entry before it looks
\* for a duplicate.)
setHandlerAppendFirst(ns, n, e) ==
    LET old == entryForMethod(ns[n], e.method)
    IN  IF old # 0 /\ ns[n].handlers[old].method = e.method
        THEN [nodes |-> [ns EXCEPT ![n].handlers = Append(@, e)], panic |-> TRUE]
        ELSE LET hs   == Append(ns[n].handlers, e)
                 hlen == Len(hs)
             IN  IF old = 0
                 THEN [nodes |-> [ns EXCEPT ![n].handlers = hs], panic |-> FALSE]
                 ELSE [nodes |-> [ns EXCEPT ![n].handlers =
                                     [hs EXCEPT ![hlen - 1] = hs[hlen],
                                                ![hlen] = hs[hlen - 1]]],
                       panic |-> FALSE]

\* node.setHandler, on node n of heap ns.  The result is the heap and
\* whether the call panicked with "duplicate route".
setHandler(ns, n, e) ==
    LET old == entryForMethod(ns[n], e.method)
    IN  IF old # 0 /\ ns[n].handlers[old].method = e.method
        THEN [nodes |-> ns, panic |-> TRUE]
        ELSE LET hs   == Append(ns[n].handlers, e)
                 hlen == Len(hs)
             IN  IF old = 0
                 THEN [nodes |-> [ns EXCEPT ![n].handlers = hs], panic |-> FALSE]
                 ELSE [nodes |-> [ns EXCEPT ![n].handlers =
                                     [hs EXCEPT ![hlen - 1] = hs[hlen],
                                                ![hlen] = hs[hlen - 1]]],
                       panic |-> FALSE]

\* (splitDropHandlers is split moving the children of the node, but not
\* its handlers, into n1.)
splitDropHandlers(ns, n, common) ==
    LET childPrefix == From(ns[n].path, Len(common))
        n1          == [ns[n] EXCEPT !.path = Tail(childPrefix), !.handlers = <<>>]
        id          == Len(ns) + 1
    IN  addChild([Append(ns, n1) EXCEPT ![n] = NewNode(common)], n, childPrefix[1], id)

\* The node split of addStaticPrefix: n1 := *n is a new heap cell holding
\* the old node with the rest of its path, and *n becomes a node holding
\* the common prefix with n1 as its only child.
split(ns, n, common) ==
    LET childPrefix == From(ns[n].path, Len(common))
        n1          == [ns[n] EXCEPT !.path = Tail(childPrefix)]
        id          == Len(ns) + 1
    IN  addChild([Append(ns, n1) EXCEPT ![n] = NewNode(common)], n, childPrefix[1], id)

\* node.addStaticPrefix on node n of heap ns: static holds the remaining
\* elements of the pattern (empty, or starting with an empty element).
RECURSIVE addStaticPrefix(_, _, _, _, _, _)
addStaticPrefix(ns, n, prefix, static, catchAll, e) ==
    LET common == commonPrefix(prefix, ns[n].path)
        ns1    == IF Len(common) < Len(ns[n].path) THEN split(ns, n, common) ELSE ns
    IN  IF Len(common) < Len(prefix)
        THEN LET rest == From(prefix, Len(common))
                 i    == IndexByte(ns1[n].firstBytes, rest[1])
                 ns2  == IF i = 0
                         THEN addChild(Append(ns1, NewNode(Tail(rest))), n, rest[1],
                                       Len(ns1) + 1)
                         ELSE ns1
                 j    == IF i = 0 THEN Len(ns2[n].child) ELSE i
             IN  addStaticPrefix(ns2, ns2[n].child[j], Tail(rest), static, catchAll, e)
        ELSE IF Len(static) = 0 THEN setHandler(ns1, n, e)
        ELSE LET isCatchAll == Len(static) = 1 /\ catchAll
                 wildPt     == IF isCatchAll THEN ns1[n].catchAll ELSE ns1[n].wild
                 id         == Len(ns1) + 1
                 ns2        == IF wildPt # 0 THEN ns1
                               ELSE IF isCatchAll
                               THEN [Append(ns1, NewNode(<<>>)) EXCEPT ![n].catchAll = id]
                               ELSE [Append(ns1, NewNode(<<>>)) EXCEPT ![n].wild = id]
                 w          == IF wildPt # 0 THEN wildPt ELSE id
                 static1    == Tail(static)
             IN  IF Len(static1) = 0 THEN setHandler(ns2, w, e)
                 ELSE addStaticPrefix(ns2, w, static1[1], Tail(static1), catchAll, e)

\* node.addRoute on the root of heap ns; pat is the index of the pattern in
\* the pattern heap and p the pattern itself.
addRoute(ns, p, pat, method, h) ==
    addStaticPrefix(ns, 1, p.static[1], Tail(p.static), p.catchAll,
                    [method |-> method, handler |-> h, pattern |-> pat])

-----------------------------------------------------------------------------
(* The route tree: lookup. *)

Param(key, value) == [Key |-> key, Value |-> value]

\* The nil Handler.
NilHandler == [kind |-> "nil"]

\* The local variables of node.lookup as its loop starts.  pc is "loop"
\* while the loop runs, "found" after `return n, params` and "break" after
\* a break out of the loop.
lookupStart(path) ==
    [pc |-> "loop", n |-> 1, path |-> path, origPath |-> path, params |-> <<>>,
     catchAll |-> 0, catchAllPath |-> <<>>, catchAllParams |-> <<>>]

\* (lookupStepWildFirst is lookupStep trying the wildcard child before the
\* static children.)
lookupStepWildFirst(ns, l) ==
    LET n == ns[l.n]
    IN  IF Len(l.path) < Len(n.path) THEN [l EXCEPT !.pc = "break"]
        ELSE
        LET prefix == Upto(l.path, Len(n.path))
            path   == From(l.path, Len(n.path))
        IN  IF prefix # n.path THEN [l EXCEPT !.pc = "break", !.path = path]
            ELSE IF path = <<>> THEN [l EXCEPT !.pc = "found", !.path = path]
            ELSE
            LET l1 == IF n.catchAll # 0
                      THEN [l EXCEPT !.path = path, !.catchAllPath = path,
                                     !.catchAll = n.catchAll, !.catchAllParams = l.params]
                      ELSE [l EXCEPT !.path = path]
                i  == IndexByte(n.firstBytes, path[1])
                er == pathElem(path)
            IN  IF n.wild # 0 /\ er[1] # <<>>
                THEN [l1 EXCEPT !.params = Append(@, Param(<<>>, er[1])),
                                !.path = er[2], !.n = n.wild]
                ELSE IF i # 0 THEN [l1 EXCEPT !.path = Tail(path), !.n = n.child[i]]
                ELSE [l1 EXCEPT !.pc = "break"]

\* (lookupStepRetry is lookupStep that takes a static child only when the
\* child's own path matches what follows, and tries the wildcard otherwise.)
lookupStepRetry(ns, l) ==
    LET n == ns[l.n]
    IN  IF Len(l.path) < Len(n.path) THEN [l EXCEPT !.pc = "break"]
        ELSE
        LET prefix == Upto(l.path, Len(n.path))
            path   == From(l.path, Len(n.path))
        IN  IF prefix # n.path THEN [l EXCEPT !.pc = "break", !.path = path]
            ELSE IF path = <<>> THEN [l EXCEPT !.pc = "found", !.path = path]
            ELSE
            LET l1 == IF n.catchAll # 0
                      THEN [l EXCEPT !.path = path, !.catchAllPath = path,
                                     !.catchAll = n.catchAll, !.catchAllParams = l.params]
                      ELSE [l EXCEPT !.path = path]
                i  == IndexByte(n.firstBytes, path[1])
                ok == /\ i # 0
                      /\ Len(ns[n.child[i]].path) <= Len(path) - 1
                      /\ Upto(Tail(path), Len(ns[n.child[i]].path)) = ns[n.child[i]].path
            IN  IF ok THEN [l1 EXCEPT !.path = Tail(path), !.n = n.child[i]]
                ELSE IF n.wild = 0 THEN [l1 EXCEPT !.pc = "break"]
                ELSE LET er == pathElem(path)
                     IN  IF er[1] = <<>> THEN [l1 EXCEPT !.pc = "break"]
                         ELSE [l1 EXCEPT !.params = Append(@, Param(<<>>, er[1])),
                                         !.path = er[2], !.n = n.wild]

\* One iteration of the loop of node.lookup on heap ns.
lookupStep(ns, l) ==
    LET n == ns[l.n]
    IN  IF Len(l.path) < Len(n.path) THEN [l EXCEPT !.pc = "break"]
        ELSE
        LET prefix == Upto(l.path, Len(n.path))
            path   == From(l.path, Len(n.path))
        IN  IF prefix # n.path THEN [l EXCEPT !.pc = "break", !.path = path]
            ELSE IF path = <<>> THEN [l EXCEPT !.pc = "found", !.path = path]
            ELSE
            LET l1 == IF n.catchAll # 0
                      THEN [l EXCEPT !.path = path, !.catchAllPath = path,
                                     !.catchAll = n.catchAll, !.catchAllParams = l.params]
                      ELSE [l EXCEPT !.path = path]
                i  == IndexByte(n.firstBytes, path[1])
            IN  IF i # 0 THEN [l1 EXCEPT !.path = Tail(path), !.n = n.child[i]]
                ELSE IF n.wild = 0 THEN [l1 EXCEPT !.pc = "break"]
                ELSE LET er == pathElem(path)
                     IN  IF er[1] = <<>> THEN [l1 EXCEPT !.pc = "break"]
                         ELSE [l1 EXCEPT !.params = Append(@, Param(<<>>, er[1])),
                                         !.path = er[2], !.n = n.wild]

RECURSIVE lookupRun(_, _)
lookupRun(ns, l) == IF l.pc # "loop" THEN l ELSE lookupRun(ns, lookupStep(ns, l))

\* (lookupEndNoSlash is lookupEnd with the catch-all value cut one byte
\* later, so that it loses its leading slash.)
lookupEndNoSlash(l) ==
    IF l.pc = "found" THEN [node |-> l.n, params |-> l.params]
    ELSE IF l.catchAll # 0
    THEN [node   |-> l.catchAll,
          params |-> Append(l.catchAllParams,
                            Param(<<>>, From(l.origPath,
                                             Len(l.origPath) - Len(l.catchAllPath))))]
    ELSE [node |-> 0, params |-> <<>>]

\* What node.lookup returns once its loop has ended in l.
lookupEnd(l) ==
    IF l.pc = "found" THEN [node |-> l.n, params |-> l.params]
    ELSE IF l.catchAll # 0
    THEN [node   |-> l.catchAll,
          params |-> Append(l.catchAllParams,
                            Param(<<>>, From(l.origPath,
                                             Len(l.origPath) - Len(l.catchAllPath) - 1)))]
    ELSE [node |-> 0, params |-> <<>>]

\* node.lookup on the root of heap ns.
lookup(ns, path) == lookupEnd(lookupRun(ns, lookupStart(path)))

NoValue == [h |-> NilHandler, p |-> <<>>, pat |-> 0, node |-> 0, panic |-> FALSE]

\* (fillKeysLookup is fillKeys leaving the parameters as lookup made them.)
fillKeysLookup(params, keys) == params

\* The loop of getValue that fills in the keys of the entry's pattern;
\* params[i] with i out of range panics.
fillKeys(params, keys) ==
    [i \in 1..Len(params) |->
        IF i <= Len(keys) THEN Param(keys[i], params[i].Value) ELSE params[i]]

\* (getValueNoFallback is getValue without the fallback on the catch-all
\* child of the node found.)
getValueNoFallback(ns, ps, method, path) ==
    LET found == lookup(ns, path)
    IN  IF found.node = 0 THEN NoValue
        ELSE
        LET fn == ns[found.node]
            e  == entryForMethod(fn, method)
        IN  IF e = 0 THEN [NoValue EXCEPT !.node = found.node]
            ELSE
            LET entry == fn.handlers[e]
                keys  == Keys(ps[entry.pattern])
            IN  IF Len(found.params) = 0
                THEN [h |-> entry.handler, p |-> <<>>, pat |-> entry.pattern,
                      node |-> found.node, panic |-> FALSE]
                ELSE [h |-> entry.handler, p |-> fillKeys(found.params, keys),
                      pat |-> entry.pattern, node |-> found.node,
                      panic |-> Len(keys) > Len(found.params)]

\* (getValueEmptySynthetic is getValue with an empty value, not "/", for
\* the catch-all child of the node found.)
getValueEmptySynthetic(ns, ps, method, path) ==
    LET found == lookup(ns, path)
    IN  IF found.node = 0 THEN NoValue
        ELSE
        LET fn == ns[found.node]
            e  == entryForMethod(fn, method)
        IN  IF e = 0 /\ fn.catchAll = 0 THEN [NoValue EXCEPT !.node = found.node]
            ELSE IF e = 0 /\ entryForMethod(ns[fn.catchAll], method) = 0
            THEN [NoValue EXCEPT !.node = found.node]
            ELSE
            LET entry  == IF e # 0 THEN fn.handlers[e]
                          ELSE ns[fn.catchAll].handlers[
                                   entryForMethod(ns[fn.catchAll], method)]
                params == IF e # 0 THEN found.params
                          ELSE Append(found.params, Param(<<>>, <<>>))
                keys   == Keys(ps[entry.pattern])
            IN  IF Len(params) = 0
                THEN [h |-> entry.handler, p |-> <<>>, pat |-> entry.pattern,
                      node |-> found.node, panic |-> FALSE]
                ELSE [h |-> entry.handler, p |-> fillKeys(params, keys),
                      pat |-> entry.pattern, node |-> found.node,
                      panic |-> Len(keys) > Len(params)]

\* node.getValue on the root of heap ns, with pattern heap ps.
getValue(ns, ps, method, path) ==
    LET found == lookup(ns, path)
    IN  IF found.node = 0 THEN NoValue
        ELSE
        LET fn == ns[found.node]
            e  == entryForMethod(fn, method)
        IN  IF e = 0 /\ fn.catchAll = 0 THEN [NoValue EXCEPT !.node = found.node]
            ELSE IF e = 0 /\ entryForMethod(ns[fn.catchAll], method) = 0
            THEN [NoValue EXCEPT !.node = found.node]
            ELSE
            LET entry  == IF e # 0 THEN fn.handlers[e]
                          ELSE ns[fn.catchAll].handlers[
                                   entryForMethod(ns[fn.catchAll], method)]
                params == IF e # 0 THEN found.params
                          ELSE Append(found.params, Param(<<>>, <<"/">>))
                keys   == Keys(ps[entry.pattern])
            IN  IF Len(params) = 0
                THEN [h |-> entry.handler, p |-> <<>>, pat |-> entry.pattern,
                      node |-> found.node, panic |-> FALSE]
                ELSE [h |-> entry.handler, p |-> fillKeys(params, keys),
                      pat |-> entry.pattern, node |-> found.node,
                      panic |-> Len(keys) > Len(params)]

-----------------------------------------------------------------------------
(* Params slices.  A slice is a pointer to a backing array, a heap cell of *)
(* `bufs`, and a length; the capacity is the length of the array.  Two     *)
(* slices with the same array share its elements, as in Go.                *)

\* The goroutines that serve requests.
Procs == {1, 2}

\* The cells of the heap of backing arrays.
BufIds == 1..(2 * Cardinality(Procs))

FreeBuf == [free |-> TRUE, cells |-> <<>>]

\* The heap with no array allocated.
NoBufs == [id \in BufIds |-> FreeBuf]

\* The nil slice.
NilSlice == [buf |-> 0, len |-> 0]

\* The zero Param.
ZeroParam == Param(<<>>, <<>>)

\* cap(s).
Cap(bs, s) == IF s.buf = 0 THEN 0 ELSE Len(bs[s.buf].cells)

\* The elements of the slice s.
Elems(bs, s) == [i \in 1..s.len |-> bs[s.buf].cells[i]]

\* (newArrayFirst is newArray handing out the first cell of the heap,
\* allocated or not.)
newArrayFirst(bs, cap) ==
    [id   |-> 1,
     bufs |-> [bs EXCEPT ![1] = [free  |-> FALSE,
                                 cells |-> [i \in 1..cap |-> ZeroParam]]]]

\* The allocation of a zeroed array of cap elements: a heap cell that is
\* not in use.
newArray(bs, cap) ==
    LET id == CHOOSE i \in BufIds : bs[i].free /\ \A j \in 1..(i - 1) : ~bs[j].free
    IN  [id   |-> id,
         bufs |-> [bs EXCEPT ![id] = [free  |-> FALSE,
                                      cells |-> [i \in 1..cap |-> ZeroParam]]]]

\* make(Params, 0, cap).  A slice of capacity 0 has no array of its own.
makeParams(bs, cap) ==
    IF cap = 0 THEN [s |-> NilSlice, bufs |-> bs]
    ELSE LET a == newArray(bs, cap)
         IN  [s |-> [buf |-> a.id, len |-> 0], bufs |-> a.bufs]

\* append(s, v): in place when the capacity allows it, and otherwise into a
\* new array of twice the capacity, or of capacity 1, that the elements of
\* s are copied to.
appendParam(bs, s, v) ==
    IF s.len < Cap(bs, s)
    THEN [s    |-> [s EXCEPT !.len = @ + 1],
          bufs |-> [bs EXCEPT ![s.buf].cells[s.len + 1] = v]]
    ELSE LET newcap == IF 2 * Cap(bs, s) > s.len THEN 2 * Cap(bs, s) ELSE s.len + 1
             a      == newArray(bs, newcap)
         IN  [s    |-> [buf |-> a.id, len |-> s.len + 1],
              bufs |-> [a.bufs EXCEPT ![a.id].cells =
                           [i \in 1..newcap |->
                               IF i <= s.len THEN bs[s.buf].cells[i]
                               ELSE IF i = s.len + 1 THEN v
                               ELSE ZeroParam]]]

\* The loop of getValue that fills in the keys, on the slice s: the
\* assignments params[i].Key = key that are in range.
setKeys(bs, s, keys) ==
    IF s.buf = 0 THEN bs
    ELSE [bs EXCEPT ![s.buf].cells =
             [i \in 1..Len(@) |->
                 IF i <= s.len /\ i <= Len(keys) THEN Param(keys[i], @[i].Value)
                 ELSE @[i]]]

\* The local variables of node.lookup at the start of its loop, with params
\* and catchAllParams as slices.
lookupBegin(path) ==
    [pc |-> "loop", n |-> 1, path |-> path, origPath |-> path, params |-> NilSlice,
     catchAll |-> 0, catchAllPath |-> <<>>, catchAllParams |-> NilSlice]

\* One iteration of the loop of node.lookup on heap ns, with the slices in
\* the heap bs; maxP is maxParams.
lookupIteration(ns, bs, l, maxP) ==
    LET n == ns[l.n]
    IN  IF Len(l.path) < Len(n.path) THEN [l |-> [l EXCEPT !.pc = "break"], bufs |-> bs]
        ELSE
        LET prefix == Upto(l.path, Len(n.path))
            path   == From(l.path, Len(n.path))
        IN  IF prefix # n.path
            THEN [l |-> [l EXCEPT !.pc = "break", !.path = path], bufs |-> bs]
            ELSE IF path = <<>>
            THEN [l |-> [l EXCEPT !.pc = "found", !.path = path], bufs |-> bs]
            ELSE
            LET l1 == IF n.catchAll # 0
                      THEN [l EXCEPT !.path = path, !.catchAllPath = path,
                                     !.catchAll = n.catchAll, !.catchAllParams = l.params]
                      ELSE [l EXCEPT !.path = path]
                i  == IndexByte(n.firstBytes, path[1])
            IN  IF i # 0
                THEN [l |-> [l1 EXCEPT !.path = Tail(path), !.n = n.child[i]], bufs |-> bs]
                ELSE IF n.wild = 0 THEN [l |-> [l1 EXCEPT !.pc = "break"], bufs |-> bs]
                ELSE LET er == pathElem(path)
                     IN  IF er[1] = <<>>
                         THEN [l |-> [l1 EXCEPT !.pc = "break"], bufs |-> bs]
                         ELSE LET made == IF l.params = NilSlice THEN makeParams(bs, maxP)
                                          ELSE [s |-> l.params, bufs |-> bs]
                                  a    == appendParam(made.bufs, made.s,
                                                      Param(<<>>, er[1]))
                              IN  [l    |-> [l1 EXCEPT !.params = a.s, !.path = er[2],
                                                       !.n = n.wild],
                                   bufs |-> a.bufs]

\* (lookupReturnDeepest is lookupReturn appending the catch-all value to
\* params, the parameters of the whole descent.)
lookupReturnDeepest(bs, l) ==
    IF l.pc = "found" THEN [node |-> l.n, params |-> l.params, bufs |-> bs]
    ELSE IF l.catchAll # 0
    THEN LET a == appendParam(bs, l.params,
                              Param(<<>>, From(l.origPath,
                                               Len(l.origPath) - Len(l.catchAllPath) - 1)))
         IN  [node |-> l.catchAll, params |-> a.s, bufs |-> a.bufs]
    ELSE [node |-> 0, params |-> NilSlice, bufs |-> bs]

\* What node.lookup returns once its loop has ended in l, with the slices
\* in the heap bs.
lookupReturn(bs, l) ==
    IF l.pc = "found" THEN [node |-> l.n, params |-> l.params, bufs |-> bs]
    ELSE IF l.catchAll # 0
    THEN LET a == appendParam(bs, l.catchAllParams,
                              Param(<<>>, From(l.origPath,
                                               Len(l.origPath) - Len(l.catchAllPath) - 1)))
         IN  [node |-> l.catchAll, params |-> a.s, bufs |-> a.bufs]
    ELSE [node |-> 0, params |-> NilSlice, bufs |-> bs]

\* node.getValue after its call of lookup has returned found, with the
\* slices in the heap bs.
getValueFound(ns, ps, bs, method, found) ==
    IF found.node = 0
    THEN [h |-> NilHandler, p |-> NilSlice, pat |-> 0, node |-> 0, panic |-> FALSE,
          bufs |-> bs]
    ELSE
    LET fn == ns[found.node]
        e  == entryForMethod(fn, method)
        no == [h |-> NilHandler, p |-> NilSlice, pat |-> 0, node |-> found.node,
               panic |-> FALSE, bufs |-> bs]
    IN  IF e = 0 /\ fn.catchAll = 0 THEN no
        ELSE IF e = 0 /\ entryForMethod(ns[fn.catchAll], method) = 0 THEN no
        ELSE
        LET entry == IF e # 0 THEN fn.handlers[e]
                     ELSE ns[fn.catchAll].handlers[
                              entryForMethod(ns[fn.catchAll], method)]
            a     == IF e # 0 THEN [s |-> found.params, bufs |-> bs]
                     ELSE appendParam(bs, found.params, Param(<<>>, <<"/">>))
            keys  == Keys(ps[entry.pattern])
        IN  IF a.s.len = 0
            THEN [h |-> entry.handler, p |-> NilSlice, pat |-> entry.pattern,
                  node |-> found.node, panic |-> FALSE, bufs |-> a.bufs]
            ELSE [h |-> entry.handler, p |-> a.s, pat |-> entry.pattern,
                  node |-> found.node, panic |-> Len(keys) > a.s.len,
                  bufs |-> setKeys(a.bufs, a.s, keys)]

-----------------------------------------------------------------------------
(* The router (Router in tree.go). *)

\* The handlers the package provides.
NotFound == [kind |-> "NotFound"]

MethodNotAllowed == [kind |-> "MethodNotAllowed"]

Redirect(path, code) == [kind |-> "Redirect", Path |-> path, Code |-> code]

\* A handler given to Handle, as the tests' pathHandler{method, path}.
pathHandler(method, path) == [kind |-> "pathHandler", method |-> method, path |-> path]

StatusMovedPermanently == 301

StatusTemporaryRedirect == 307

\* The router r is the record of the Router's fields.
Router == [nodes |-> nodes, pats |-> pats, maxParams |-> maxParams,
           NotFound |-> notFound, MethodNotAllowed |-> methodNotAllowed]

\* (slashRedirectAnyMethod is slashRedirect without the look for an entry
\* for the method.)
slashRedirectAnyMethod(r, method, path) ==
    LET toggled == IF HasSuffix(path, "/") THEN Upto(path, Len(path) - 1)
                   ELSE Append(path, "/")
        found   == lookup(r.nodes, toggled)
    IN  IF found.node = 0 THEN <<>> ELSE toggled

\* Router.slashRedirect: the redirected path, or the empty string.
slashRedirect(r, method, path) ==
    LET toggled == IF HasSuffix(path, "/") THEN Upto(path, Len(path) - 1)
                   ELSE Append(path, "/")
        found   == lookup(r.nodes, toggled)
    IN  IF found.node = 0 THEN <<>>
        ELSE IF entryForMethod(r.nodes[found.node], method) = 0 THEN <<>>
        ELSE toggled

\* Router.Handler.
Handler(r, method, path) ==
    LET v == getValue(r.nodes, r.pats, method, path)
    IN  [h |-> v.h, p |-> v.p, pat |-> v.pat, panic |-> v.panic]

\* (HandlerToUseRedirectFirst is HandlerToUse with the redirects tried
\* before the node's other handlers are looked at.)
HandlerToUseRedirectFirst(r, method, path) ==
    LET v    == getValue(r.nodes, r.pats, method, path)
        none == [h |-> NilHandler, p |-> <<>>, pat |-> 0, panic |-> FALSE]
        code == IF method # "GET" THEN StatusTemporaryRedirect
                ELSE StatusMovedPermanently
    IN  IF v.h # NilHandler THEN [h |-> v.h, p |-> v.p, pat |-> v.pat, panic |-> v.panic]
        ELSE IF method # "CONNECT" /\ path # <<"/">> /\ CleanPath(path) # path
        THEN [none EXCEPT !.h = Redirect(CleanPath(path), code)]
        ELSE IF method # "CONNECT" /\ path # <<"/">>
                /\ slashRedirect(r, method, path) # <<>>
        THEN [none EXCEPT !.h = Redirect(slashRedirect(r, method, path), code)]
        ELSE IF v.node # 0 /\ Len(r.nodes[v.node].handlers) > 0
        THEN [none EXCEPT !.h = r.MethodNotAllowed]
        ELSE [none EXCEPT !.h = r.NotFound]

\* (HandlerToUseInteriorNotFound is HandlerToUse answering not-found for
\* every node found that has no handlers.)
HandlerToUseInteriorNotFound(r, method, path) ==
    LET v    == getValue(r.nodes, r.pats, method, path)
        none == [h |-> NilHandler, p |-> <<>>, pat |-> 0, panic |-> FALSE]
        code == IF method # "GET" THEN StatusTemporaryRedirect
                ELSE StatusMovedPermanently
    IN  IF v.h # NilHandler THEN [h |-> v.h, p |-> v.p, pat |-> v.pat, panic |-> v.panic]
        ELSE IF v.node # 0 /\ Len(r.nodes[v.node].handlers) > 0
        THEN [none EXCEPT !.h = r.MethodNotAllowed]
        ELSE IF v.node # 0 THEN [none EXCEPT !.h = r.NotFound]
        ELSE IF method = "CONNECT" \/ path = <<"/">>
        THEN [none EXCEPT !.h = r.NotFound]
        ELSE IF CleanPath(path) # path
        THEN [none EXCEPT !.h = Redirect(CleanPath(path), code)]
        ELSE IF slashRedirect(r, method, path) # <<>>
        THEN [none EXCEPT !.h = Redirect(slashRedirect(r, method, path), code)]
        ELSE [none EXCEPT !.h = r.NotFound]

\* (HandlerToUseCleanIfFound is HandlerToUse redirecting to the clean path
\* only when the clean path has a handler.)
HandlerToUseCleanIfFound(r, method, path) ==
    LET v    == getValue(r.nodes, r.pats, method, path)
        none == [h |-> NilHandler, p |-> <<>>, pat |-> 0, panic |-> FALSE]
        code == IF method # "GET" THEN StatusTemporaryRedirect
                ELSE StatusMovedPermanently
    IN  IF v.h # NilHandler THEN [h |-> v.h, p |-> v.p, pat |-> v.pat, panic |-> v.panic]
        ELSE IF v.node # 0 /\ Len(r.nodes[v.node].handlers) > 0
        THEN [none EXCEPT !.h = r.MethodNotAllowed]
        ELSE IF method = "CONNECT" \/ path = <<"/">>
        THEN [none EXCEPT !.h = r.NotFound]
        ELSE IF /\ CleanPath(path) # path
                /\ getValue(r.nodes, r.pats, method, CleanPath(path)).h # NilHandler
        THEN [none EXCEPT !.h = Redirect(CleanPath(path), code)]
        ELSE IF slashRedirect(r, method, path) # <<>>
        THEN [none EXCEPT !.h = Redirect(slashRedirect(r, method, path), code)]
        ELSE [none EXCEPT !.h = r.NotFound]

\* (HandlerToUseNoConnectCheck is HandlerToUse without the check for the
\* CONNECT method and the path "/".)
HandlerToUseNoConnectCheck(r, method, path) ==
    LET v    == getValue(r.nodes, r.pats, method, path)
        none == [h |-> NilHandler, p |-> <<>>, pat |-> 0, panic |-> FALSE]
        code == IF method # "GET" THEN StatusTemporaryRedirect
                ELSE StatusMovedPermanently
    IN  IF v.h # NilHandler THEN [h |-> v.h, p |-> v.p, pat |-> v.pat, panic |-> v.panic]
        ELSE IF v.node # 0 /\ Len(r.nodes[v.node].handlers) > 0
        THEN [none EXCEPT !.h = r.MethodNotAllowed]
        ELSE IF CleanPath(path) # path
        THEN [none EXCEPT !.h = Redirect(CleanPath(path), code)]
        ELSE IF slashRedirect(r, method, path) # <<>>
        THEN [none EXCEPT !.h = Redirect(slashRedirect(r, method, path), code)]
        ELSE [none EXCEPT !.h = r.NotFound]

\* Router.HandlerToUse.
HandlerToUse(r, method, path) ==
    LET v    == getValue(r.nodes, r.pats, method, path)
        none == [h |-> NilHandler, p |-> <<>>, pat |-> 0, panic |-> FALSE]
        code == IF method # "GET" THEN StatusTemporaryRedirect
                ELSE StatusMovedPermanently
    IN  IF v.h # NilHandler THEN [h |-> v.h, p |-> v.p, pat |-> v.pat, panic |-> v.panic]
        ELSE IF v.node # 0 /\ Len(r.nodes[v.node].handlers) > 0
        THEN [none EXCEPT !.h = r.MethodNotAllowed]
        ELSE IF method = "CONNECT" \/ path = <<"/">>
        THEN [none EXCEPT !.h = r.NotFound]
        ELSE IF CleanPath(path) # path
        THEN [none EXCEPT !.h = Redirect(CleanPath(path), code)]
        ELSE IF slashRedirect(r, method, path) # <<>>
        THEN [none EXCEPT !.h = Redirect(slashRedirect(r, method, path), code)]
        ELSE [none EXCEPT !.h = r.NotFound]

-----------------------------------------------------------------------------
(* The calls made on the router.  Each run draws its Handle calls from one *)
(* family of routes; a route is a method and a pattern string.             *)

Route(method, pattern) == [method |-> method, pattern |-> pattern]

\* Static routes against single-segment wildcards.
FamilyPrecedence ==
    { Route("GET", <<"/", "a", "b">>),
      Route("GET", <<"/", ":", "x">>),
      Route("GET", <<"/", "a", "/", "b">>),
      Route("GET", <<"/", ":", "x", "/", "b">>) }

\* A catch-all beside wildcards, static routes and other methods.
FamilyCatchAll ==
    { Route("GET", <<"/", "*", "x">>),
      Route("GET", <<"/", ":", "y">>),
      Route("GET", <<"/", "a", "/", "*", "y">>),
      Route("PUT", <<"/", "a">>) }

\* The "*" method beside exact methods, and patterns that differ only in
\* their variable names.
FamilyMethods ==
    { Route("*", <<"/", "a">>),
      Route("GET", <<"/", "a">>),
      Route("PUT", <<"/", ":", "y">>),
      Route("GET", <<"/", ":", "x">>),
      Route("GET", <<"/", ":", "y">>) }

\* Routes that split nodes, with and without trailing slashes.
FamilySplit ==
    { Route("GET", <<"/", "a", "/">>),
      Route("GET", <<"/", "a", "b">>),
      Route("GET", <<"/", "a", "a", "/", "b">>),
      Route("*", <<"/", "a", "b", "/">>) }

\* Several wildcards and catch-alls at several depths.
FamilyDeep ==
    { Route("GET", <<"/", "*", "x">>),
      Route("GET", <<"/", "a", "/", "*", "y">>),
      Route("GET", <<"/", ":", "x", "/", ":", "y">>),
      Route("GET", <<"/", ":", "x", "/", "*", "y">>) }

\* Patterns that ParsePattern rejects, beside one it accepts.
FamilyInvalid ==
    { Route("GET", <<"/", "a">>),
      Route("GET", <<"a">>),
      Route("GET", <<"/", "a", "/", "/">>),
      Route("GET", <<"/", "a", ":", "x">>),
      Route("GET", <<"/", "*", "x", "/", "a">>) }

Families ==
    { FamilyPrecedence, FamilyCatchAll, FamilyMethods, FamilySplit, FamilyDeep,
      FamilyInvalid }

\* What `last` holds: the call, its arguments, and its results; Idle when
\* no call is in progress.
Call(op, method, path, pat, vals, h, p, rpat, out, err) ==
    [op |-> op, method |-> method, path |-> path, pat |-> pat, vals |-> vals,
     h |-> h, p |-> p, rpat |-> rpat, out |-> out, err |-> err]

Idle == Call("", "", <<>>, 0, <<>>, NilHandler, <<>>, 0, <<>>, "")

\* What HandlerToUse returns, with the parameters as a slice.
NoResult == [h |-> NilHandler, p |-> NilSlice, pat |-> 0, panic |-> FALSE]

\* What `calls` holds for a goroutine: where its call of HandlerToUse is
\* ("idle": no call; "lookup": in node.lookup; "done": returned), the
\* arguments, the local variables of node.lookup, and the results.
IdleCall == [pc |-> "idle", method |-> "", path |-> <<>>, l |-> lookupBegin(<<>>),
             res |-> NoResult]

NoCalls == [p \in Procs |-> IdleCall]

\* The values given to the exported fields NotFound and MethodNotAllowed
\* before any request is served: those that New sets, or nil.
Configs == {<<NotFound, MethodNotAllowed>>, <<NilHandler, NilHandler>>}

\* The families of routes that a router with nil fields is run with.
NilFamilies == {FamilyCatchAll, FamilySplit}

\* New, and the setting of the exported fields.
Init ==
    /\ family \in Families
    /\ nodes = <<NewNode(<<"/">>)>>
    /\ pats = <<>>
    /\ maxParams = 0
    /\ \E c \in Configs :
          /\ c[1] = NilHandler => family \in NilFamilies
          /\ notFound = c[1]
          /\ methodNotAllowed = c[2]
    /\ routes = <<>>
    /\ last = Idle
    /\ calls = NoCalls
    /\ bufs = NoBufs

\* Router.Handle(method, pattern, pathHandler{method, pattern}) on router r:
\* the router afterwards, the index of the pattern returned, and the panic
\* raised if any.  A panic leaves the router as it was when it was raised.
handle(r, method, pattern) ==
    LET parsed == ParsePattern(pattern)
        pat    == Len(r.pats) + 1
        added  == addRoute(r.nodes, parsed.pat, pat, method, pathHandler(method, pattern))
    IN  IF parsed.err # "" THEN [r |-> r, pat |-> 0, err |-> "cannot parse pattern"]
        ELSE IF added.panic
        THEN [r |-> [r EXCEPT !.nodes = added.nodes], pat |-> 0,
              err |-> "duplicate route"]
        ELSE [r   |-> [r EXCEPT !.nodes = added.nodes,
                                !.pats = Append(@, parsed.pat),
                                !.maxParams = IF Len(Keys(parsed.pat)) > @
                                              THEN Len(Keys(parsed.pat)) ELSE @],
              pat |-> pat, err |-> ""]

Handle(method, pattern) ==
    /\ last = Idle
    /\ \E res \in {handle(Router, method, pattern)} :
          /\ nodes' = res.r.nodes
          /\ pats' = res.r.pats
          /\ maxParams' = res.r.maxParams
          /\ routes' = IF res.err # "" THEN routes
                       ELSE Append(routes, [method |-> method, pattern |-> pattern,
                                            pat |-> res.pat])
          /\ last' = Call("Handle", method, pattern, 0, <<>>, NilHandler, <<>>,
                          res.pat, <<>>, res.err)
    /\ UNCHANGED <<calls, bufs>>
    /\ UNCHANGED <<family, notFound, methodNotAllowed>>

\* Router.ServeSubroute(w, req, path) up to the call of the handler: the
\* handler, parameters and pattern that HandlerToUse returns, and the panic
\* raised by HandlerToUse or by the call handler.ServeRoute on a nil handler.
ServeSubroute(method, path) ==
    /\ last = Idle
    /\ \E res \in {HandlerToUse(Router, method, path)} :
          last' = Call("HandlerToUse", method, path, 0, <<>>, res.h, res.p, res.pat,
                       <<>>, IF res.panic THEN "index out of range"
                             ELSE IF res.h = NilHandler THEN "nil pointer dereference"
                             ELSE "")
    /\ UNCHANGED <<calls, bufs>>
    /\ UNCHANGED <<family, nodes, pats, maxParams, notFound, methodNotAllowed,
                   routes>>

\* The value lists handed to the pattern pats[pat]: every list of the right
\* length, and one list of each wrong length near it.
ValueLists(pat) ==
    LET k == Len(Keys(pats[pat]))
    IN  [1..k -> Values]
        \cup {[i \in 1..j |-> <<"a">>] : j \in ((k - 1)..(k + 1)) \ {-1, k}}

\* Pattern.Path(vals...) on a pattern that Handle returned.
PatternPath(pat, vals) ==
    /\ last = Idle
    /\ \E res \in {Path(pats[pat], vals)} :
          last' = Call("Path", "", <<>>, pat, vals, NilHandler, <<>>, 0,
                       IF res.err = "" THEN res.path ELSE <<>>, res.err)
    /\ UNCHANGED <<calls, bufs>>
    /\ UNCHANGED <<family, nodes, pats, maxParams, notFound, methodNotAllowed,
                   routes>>

\* The caller takes the results of the call; the next call can be made.
Return ==
    /\ last # Idle
    /\ last' = Idle
    /\ UNCHANGED <<calls, bufs>>
    /\ UNCHANGED <<family, nodes, pats, maxParams, notFound, methodNotAllowed, routes>>

\* ParsePattern(p), called on its own: pats holds the pattern returned.
ParsePatternCall(p) ==
    /\ last = Idle
    /\ \E res \in {ParsePattern(p)} :
          /\ pats' = IF res.err = "" THEN <<res.pat>> ELSE <<>>
          /\ last' = Call("ParsePattern", "", p, 0, <<>>, NilHandler, <<>>,
                          IF res.err = "" THEN 1 ELSE 0, <<>>, res.err)
    /\ UNCHANGED <<calls, bufs>>
    /\ UNCHANGED <<family, nodes, maxParams, notFound, methodNotAllowed, routes>>

\* Pattern.String, called on the pattern that ParsePattern just returned.
PatternStringCall ==
    /\ last.op = "ParsePattern"
    /\ last.err = ""
    /\ last' = [last EXCEPT !.op = "String", !.out = PatternString(pats[last.rpat])]
    /\ UNCHANGED <<calls, bufs>>
    /\ UNCHANGED <<family, nodes, pats, maxParams, notFound, methodNotAllowed, routes>>

Next ==
    \/ \E r \in family : Handle(r.method, r.pattern)
    \/ \E method \in RequestMethods, path \in Paths : ServeSubroute(method, path)
    \/ \E pat \in 1..Len(pats) : \E vals \in ValueLists(pat) : PatternPath(pat, vals)
    \/ Return

Spec == Init /\ [][Next]_vars

\* The pattern functions on their own: no router is involved.
InitPattern ==
    /\ family = {}
    /\ nodes = <<NewNode(<<"/">>)>>
    /\ pats = <<>>
    /\ maxParams = 0
    /\ notFound = NotFound
    /\ methodNotAllowed = MethodNotAllowed
    /\ routes = <<>>
    /\ last = Idle
    /\ calls = NoCalls
    /\ bufs = NoBufs

NextPattern ==
    \/ \E p \in PatternStrings : ParsePatternCall(p)
    \/ PatternStringCall
    \/ \E pat \in 1..Len(pats) : \E vals \in ValueLists(pat) : PatternPath(pat, vals)
    \/ Return

SpecPattern == InitPattern /\ [][NextPattern]_vars

-----------------------------------------------------------------------------
(* A router mounted in another: the inner router, which is the router of   *)
(* the state, is the handler of a catch-all route of an outer router.      *)

\* The route of the outer router that the inner router is registered for.
MountRoute == Route("*", <<"/", "a", "/", "*", "y">>)

\* The inner router as a handler of the outer router.
MountHandler == pathHandler(MountRoute.method, MountRoute.pattern)

\* The outer router: New, and Handle(MountRoute.method, MountRoute.pattern,
\* inner).
Outer ==
    handle([nodes |-> <<NewNode(<<"/">>)>>, pats |-> <<>>, maxParams |-> 0,
            NotFound |-> NotFound, MethodNotAllowed |-> MethodNotAllowed],
           MountRoute.method, MountRoute.pattern).r

\* Router.ServeRoute(w, req, p) of the inner router: the path that it
\* hands to ServeSubroute.
ServeRoutePath(p) == IF Len(p) > 0 THEN p[Len(p)].Value ELSE <<>>

\* The paths requested of the outer router: below the mount point, and
\* elsewhere.
OuterPaths == Paths \cup {<<"/", "a">> \o p : p \in Paths}

\* Outer.ServeHTTP for a request with the method and the path, up to the
\* call of the handler that answers it: the outer router's own answer, or,
\* when the outer router calls the inner router's ServeRoute, the answer of
\* the inner router's ServeSubroute for the value of the last parameter.
ServeHTTP(method, path) ==
    /\ last = Idle
    /\ \E o \in {HandlerToUse(Outer, method, path)} :
          IF o.h = MountHandler
          THEN \E res \in {HandlerToUse(Router, method, ServeRoutePath(o.p))} :
                  last' = Call("ServeRoute", method, path, 0, <<ServeRoutePath(o.p)>>,
                               res.h, res.p, res.pat, <<>>,
                               IF res.panic THEN "index out of range"
                               ELSE IF res.h = NilHandler THEN "nil pointer dereference"
                               ELSE "")
          ELSE last' = Call("ServeHTTP", method, path, 0, <<>>, o.h, o.p, 0, <<>>, "")
    /\ UNCHANGED <<calls, bufs>>
    /\ UNCHANGED <<family, nodes, pats, maxParams, notFound, methodNotAllowed,
                   routes>>

\* The families of routes that a mounted router is run with.
SubrouteFamilies == {FamilySplit, FamilyCatchAll}

InitSubroute ==
    /\ family \in SubrouteFamilies
    /\ nodes = <<NewNode(<<"/">>)>>
    /\ pats = <<>>
    /\ maxParams = 0
    /\ notFound = NotFound
    /\ methodNotAllowed = MethodNotAllowed
    /\ routes = <<>>
    /\ last = Idle
    /\ calls = NoCalls
    /\ bufs = NoBufs

NextSubroute ==
    \/ \E r \in family : Handle(r.method, r.pattern)
    \/ \E method \in RequestMethods, path \in OuterPaths : ServeHTTP(method, path)
    \/ Return

SpecSubroute == InitSubroute /\ [][NextSubroute]_vars

-----------------------------------------------------------------------------
(* Definitions shared by the properties below. *)

\* The router New returns.
New == [nodes |-> <<NewNode(<<"/">>)>>, pats |-> <<>>, maxParams |-> 0,
        NotFound |-> NotFound, MethodNotAllowed |-> MethodNotAllowed]

\* The router after Handle has been called for each route of rs in order.
RECURSIVE Registered(_, _)
Registered(r, rs) ==
    IF rs = <<>> THEN r
    ELSE Registered(handle(r, Head(rs).method, Head(rs).pattern).r, Tail(rs))

\* The elements of a set in one fixed order.
RECURSIVE SetToSeq(_)
SetToSeq(S) ==
    IF S = {} THEN <<>>
    ELSE LET x == CHOOSE x \in S : TRUE IN <<x>> \o SetToSeq(S \ {x})

\* The routes registered so far, as a set and in registration order.
RouteSet == {Route(routes[i].method, routes[i].pattern) : i \in 1..Len(routes)}

RouteSeq == [i \in 1..Len(routes) |-> Route(routes[i].method, routes[i].pattern)]

\* The values of a parameter list, in order.
ValuesOf(ps) == [i \in 1..Len(ps) |-> ps[i].Value]

KeysOf(ps) == [i \in 1..Len(ps) |-> ps[i].Key]

\* A request has been answered / a path has been built / Handle has returned.
Answered == last.op = "HandlerToUse"

Built == last.op = "Path"

Handled == last.op = "Handle"

\* A request was answered by a handler given to Handle.
Served == Answered /\ last.h.kind = "pathHandler"

\* What a call's result says about the pattern: the pattern itself, or 0.
PatternOf(r, pat) == IF pat = 0 THEN 0 ELSE r.pats[pat]

-----------------------------------------------------------------------------
(* Requests served concurrently, after registration has finished: each     *)
(* goroutine calls HandlerToUse, and the iterations of the loop of         *)
(* node.lookup of one call interleave with those of the others.            *)

\* Longest request path served concurrently.
MaxServeLen == 5

\* The bytes and the methods of those requests.
ServeAlphabet == {"/", "a"}

ServePaths == {p \in Strings(ServeAlphabet, MaxServeLen) : HasPrefix(p, "/")}

ServeMethods == {"GET"}

\* Catch-alls below the root and below a wildcard, beside a route with
\* wildcards deeper than both.
FamilyNested ==
    { Route("GET", <<"/", "*", "w">>),
      Route("GET", <<"/", ":", "x", "/", "*", "y">>),
      Route("GET", <<"/", ":", "x", "/", ":", "y", "/", "a">>),
      Route("GET", <<"/", ":", "z">>) }

\* The families of routes registered before requests are served.
ServeFamilies == {FamilyNested, FamilyDeep}

\* New, and Handle for every route of a family.
InitServe ==
    /\ family \in ServeFamilies
    /\ \E rs \in {SetToSeq(family)} : \E r \in {Registered(New, rs)} :
          /\ nodes = r.nodes
          /\ pats = r.pats
          /\ maxParams = r.maxParams
          /\ routes = [i \in 1..Len(rs) |->
                          [method |-> rs[i].method, pattern |-> rs[i].pattern,
                           pat |-> i]]
    /\ notFound = NotFound
    /\ methodNotAllowed = MethodNotAllowed
    /\ last = Idle
    /\ calls = NoCalls
    /\ bufs = NoBufs

\* The heap bs once the arrays that no slice of the calls cs points to
\* have been collected.
collect(bs, cs) ==
    LET used == UNION {{cs[p].l.params.buf, cs[p].l.catchAllParams.buf,
                        cs[p].res.p.buf} : p \in Procs}
    IN  [id \in BufIds |-> IF id \in used THEN bs[id] ELSE FreeBuf]

\* Goroutine p calls r.HandlerToUse(method, path), which calls getValue,
\* which calls lookup.
BeginCall(p, method, path) ==
    /\ calls[p].pc = "idle"
    /\ calls' = [calls EXCEPT ![p] = [pc |-> "lookup", method |-> method,
                                      path |-> path, l |-> lookupBegin(path),
                                      res |-> NoResult]]
    /\ UNCHANGED <<family, nodes, pats, maxParams, notFound, methodNotAllowed, routes,
                   last, bufs>>

\* One iteration of the loop of node.lookup in the call of goroutine p.
LookupIteration(p) ==
    /\ calls[p].pc = "lookup"
    /\ calls[p].l.pc = "loop"
    /\ \E it \in {lookupIteration(nodes, bufs, calls[p].l, maxParams)} :
          /\ calls' = [calls EXCEPT ![p].l = it.l]
          /\ bufs' = collect(it.bufs, calls')
    /\ UNCHANGED <<family, nodes, pats, maxParams, notFound, methodNotAllowed, routes,
                   last>>

\* The loop of node.lookup has ended in the call of goroutine p: lookup
\* returns, getValue chooses the entry and fills in the keys, and
\* HandlerToUse returns the handler found, or without one what the tree
\* and the path say (MethodNotAllowed, a Redirect, NotFound) with the empty
\* Params{}.
FinishCall(p) ==
    /\ calls[p].pc = "lookup"
    /\ calls[p].l.pc # "loop"
    /\ \E v \in {getValueFound(nodes, pats, lookupReturn(bufs, calls[p].l).bufs,
                               calls[p].method, lookupReturn(bufs, calls[p].l))} :
          /\ calls' = [calls EXCEPT
                ![p].pc = "done",
                ![p].l = lookupBegin(<<>>),
                ![p].res =
                    IF v.h # NilHandler
                    THEN [h |-> v.h, p |-> v.p, pat |-> v.pat, panic |-> v.panic]
                    ELSE [NoResult EXCEPT
                             !.h = HandlerToUse(Router, calls[p].method,
                                                calls[p].path).h]]
          /\ bufs' = collect(v.bufs, calls')
    /\ UNCHANGED <<family, nodes, pats, maxParams, notFound, methodNotAllowed, routes,
                   last>>

\* The caller of goroutine p has used the results of the call.
ReturnCall(p) ==
    /\ calls[p].pc = "done"
    /\ calls' = [calls EXCEPT ![p] = IdleCall]
    /\ bufs' = collect(bufs, calls')
    /\ UNCHANGED <<family, nodes, pats, maxParams, notFound, methodNotAllowed, routes,
                   last>>

NextServe ==
    \/ \E p \in Procs, method \in ServeMethods, path \in ServePaths :
          BeginCall(p, method, path)
    \/ \E p \in Procs : LookupIteration(p)
    \/ \E p \in Procs : FinishCall(p)
    \/ \E p \in Procs : ReturnCall(p)

SpecServe == InitServe /\ [][NextServe]_vars

-----------------------------------------------------------------------------
(* C1: matching does not depend on the order of registration.  Whatever    *)
(* order the routes were registered in, a request gets the handler, the    *)
(* parameters and the pattern that it gets from a router in which the same *)
(* routes were registered in one fixed order.                              *)

OrderIndependent ==
    Answered =>
        LET r2  == Registered([New EXCEPT !.NotFound = notFound,
                                          !.MethodNotAllowed = methodNotAllowed],
                              SetToSeq(RouteSet))
            res == HandlerToUse(r2, last.method, last.path)
        IN  /\ res.h = last.h
            /\ res.p = last.p
            /\ PatternOf(r2, res.pat) = PatternOf(Router, last.rpat)

\* A request served with parameters by a router of three or more routes
\* that were not registered in the fixed order.
OrderIndependentWitness ==
    /\ Served
    /\ Len(last.p) > 0
    /\ Len(routes) >= 3
    /\ RouteSeq # SetToSeq(RouteSet)

-----------------------------------------------------------------------------
(* Definitions shared by the properties about Pattern.Path.                *)

\* vals has one value for each key of pat, every value of a ':' key is not
\* empty, and the value of the catch-all key starts with a slash.
ValidValues(pat, vals) ==
    /\ Len(vals) = Len(Keys(pat))
    /\ \A i \in 1..Len(vals) :
          IF CatchAll(pat) /\ i = Len(vals) THEN HasPrefix(vals[i], "/")
          ELSE vals[i] # <<>>

\* No value of a ':' key holds a slash.
SingleSegments(pat, vals) ==
    \A i \in 1..Len(vals) :
        (CatchAll(pat) /\ i = Len(vals)) \/ IndexByte(vals[i], "/") = 0

\* The handler given to Handle for the route that returned pattern pat.
HandlerOf(pat) == pathHandler(routes[pat].method, routes[pat].pattern)

\* Every registered route has the pattern string of the route of pat.
OnlyPattern(pat) == \A k \in 1..Len(routes) : routes[k].pattern = routes[pat].pattern

-----------------------------------------------------------------------------
(* C2 as stated: building a path from a registered route's pattern and     *)
(* valid values succeeds, and looking that path up with the route's method *)
(* returns the route's handler with parameters whose values are the values *)
(* the path was built from, whatever other routes the router holds.        *)

RoundTripAnyRouter ==
    (Built /\ ValidValues(pats[last.pat], last.vals)) =>
        /\ last.err = ""
        /\ LET res == Handler(Router, routes[last.pat].method, last.out)
           IN  /\ res.h = HandlerOf(last.pat)
               /\ ValuesOf(res.p) = last.vals
               /\ KeysOf(res.p) = Keys(pats[last.pat])

(* C2: building a path from a registered route's pattern and valid values  *)
(* succeeds.  When no ':' value holds a slash, a lookup of the built path   *)
(* that returns the route's handler returns parameters with the pattern's  *)
(* keys and the values the path was built from; and the lookup does return *)
(* the route's handler when no other pattern is registered.                *)

RoundTrip ==
    (Built /\ ValidValues(pats[last.pat], last.vals)) =>
        /\ last.err = ""
        /\ LET res == Handler(Router, routes[last.pat].method, last.out)
           IN  SingleSegments(pats[last.pat], last.vals) =>
                   /\ res.h = HandlerOf(last.pat) =>
                          /\ ValuesOf(res.p) = last.vals
                          /\ KeysOf(res.p) = Keys(pats[last.pat])
                   /\ OnlyPattern(last.pat) => res.h = HandlerOf(last.pat)

\* A path built for a catch-all pattern with one more key, in a router of
\* several routes, whose lookup returns the route's handler.
RoundTripWitness ==
    /\ Built
    /\ ValidValues(pats[last.pat], last.vals)
    /\ SingleSegments(pats[last.pat], last.vals)
    /\ CatchAll(pats[last.pat])
    /\ Len(last.vals) = 2
    /\ Len(last.vals[2]) > 1
    /\ Len(routes) >= 3
    /\ Handler(Router, routes[last.pat].method, last.out).h = HandlerOf(last.pat)

-----------------------------------------------------------------------------
(* Definitions shared by the properties about the descent of a lookup.     *)

\* The local variables of node.lookup, on the router's tree, when its loop
\* has ended.
Descent(path) == lookupRun(nodes, lookupStart(path))

\* The values that the local variables of node.lookup take, from the start
\* of its loop to its end.
RECURSIVE lookupTrace(_, _)
lookupTrace(ns, l) ==
    IF l.pc # "loop" THEN <<l>> ELSE <<l>> \o lookupTrace(ns, lookupStep(ns, l))

DescentTrace(path) == lookupTrace(nodes, lookupStart(path))

\* The descent broke off and lookup fell back on the remembered catch-all.
FellBack(path) == Descent(path).pc = "break" /\ Descent(path).catchAll # 0

\* The descent used up the path at a node.
Exhausted(path) == Descent(path).pc = "found"

-----------------------------------------------------------------------------
(* C3: whenever HandlerToUse returns a registered handler with parameters  *)
(* and a pattern, that pattern's Path applied to the values of the         *)
(* parameters, in order, succeeds and returns the request path, however    *)
(* the handler was reached.                                                *)

LookupThenBuild ==
    Served =>
        /\ last.err = ""
        /\ last.rpat \in 1..Len(pats)
        /\ Path(pats[last.rpat], ValuesOf(last.p)) = [err |-> "", path |-> last.path]

\* A request served by a catch-all after the descent broke off below the
\* root, with a catch-all value longer than the slash.
LookupThenBuildWitness ==
    /\ Served
    /\ FellBack(last.path)
    /\ Descent(last.path).n # 1
    /\ Len(last.p) = 1
    /\ Len(last.p[1].Value) > 1

-----------------------------------------------------------------------------
(* Definitions shared by the properties about routes that branch.          *)

\* A string without wildcard markers.
Static(str) == IndexMarker(str) = 0

\* Routes i and j have the same method and share the static prefix of
\* length k, which ends in a slash; after it route i has a static segment
\* and route j a ':' wildcard, and both go on with the same static text.
BranchAt(i, j, k) ==
    LET a == routes[i].pattern
        b == routes[j].pattern
    IN  /\ routes[i].method = routes[j].method
        /\ k >= 1 /\ k < Len(a) /\ k < Len(b)
        /\ Upto(a, k) = Upto(b, k)
        /\ Static(Upto(a, k))
        /\ a[k] = "/"
        /\ b[k + 1] = ":"
        /\ Static(From(a, k))
        /\ pathElem(From(a, k))[2] = pathElem(From(b, k))[2]

\* The request path goes through the branch point of routes i and j after
\* k bytes: it shares their prefix, has a non-empty segment there, and goes
\* on as they do.
ThroughBranch(i, k, path) ==
    /\ Len(path) > k
    /\ Upto(path, k) = Upto(routes[i].pattern, k)
    /\ pathElem(From(path, k))[1] # <<>>
    /\ pathElem(From(path, k))[2] = pathElem(From(routes[i].pattern, k))[2]

\* The segment of a path after k bytes.
SegmentAt(path, k) == pathElem(From(path, k))[1]

\* The first bytes of the static text that registered patterns have after
\* the static prefix pre.
StaticBytesAfter(pre) ==
    { routes[x].pattern[Len(pre) + 1] :
        x \in { y \in 1..Len(routes) :
                  /\ Len(routes[y].pattern) > Len(pre)
                  /\ Upto(routes[y].pattern, Len(pre)) = pre
                  /\ routes[y].pattern[Len(pre) + 1] \notin {":", "*"} } }

\* The branch points of the router, and the requests the last call made
\* through one of them.
Branches ==
    { b \in (1..Len(routes)) \X (1..Len(routes)) \X (1..MaxPathLen) :
        BranchAt(b[1], b[2], b[3]) }

BranchRequests ==
    { b \in Branches :
        /\ Answered
        /\ last.method = routes[b[1]].method
        /\ ThroughBranch(b[1], b[3], last.path) }

\* The key of the wildcard of route j after k bytes.
WildKeyAt(j, k) == Tail(pathElem(From(routes[j].pattern, k))[1])

-----------------------------------------------------------------------------
(* C4 as stated: at a branch point between a static segment s and a ':'    *)
(* wildcard, a request with segment s is served by the static route, and a *)
(* request with any other non-empty segment is served by the wildcard      *)
(* route with that segment as the wildcard's value.                        *)

StaticElseWildcard ==
    \A b \in BranchRequests :
        LET seg == SegmentAt(last.path, b[3])
        IN  IF seg = SegmentAt(routes[b[1]].pattern, b[3])
            THEN last.h = HandlerOf(b[1])
            ELSE /\ last.h = HandlerOf(b[2])
                 /\ last.p = <<Param(WildKeyAt(b[2], b[3]), seg)>>

(* C4: at a branch point between a static segment s and a ':' wildcard, a  *)
(* request with segment s is served by the static route; a request with a  *)
(* non-empty segment whose first byte starts no static text registered at  *)
(* that point is served by the wildcard route with that segment as the     *)
(* wildcard's value; and a request with another segment that starts with   *)
(* the first byte of s is not served by the wildcard route.                *)

StaticOverWildcard ==
    \A b \in BranchRequests :
        LET seg == SegmentAt(last.path, b[3])
            s   == SegmentAt(routes[b[1]].pattern, b[3])
        IN  /\ seg = s => last.h = HandlerOf(b[1]) /\ last.p = <<>>
            /\ seg[1] \notin StaticBytesAfter(Upto(last.path, b[3])) =>
                   /\ last.h = HandlerOf(b[2])
                   /\ last.p = <<Param(WildKeyAt(b[2], b[3]), seg)>>
            /\ (seg # s /\ seg[1] = s[1]) => last.h # HandlerOf(b[2])

\* A request through a branch point whose segment is not s but starts as s
\* does.
StaticOverWildcardWitness ==
    \E b \in BranchRequests :
        LET seg == SegmentAt(last.path, b[3])
            s   == SegmentAt(routes[b[1]].pattern, b[3])
        IN  seg # s /\ seg[1] = s[1] /\ Len(seg) = Len(s)

-----------------------------------------------------------------------------
(* Definitions shared by the properties about static children.             *)

\* The nodes of the subtree of node n (n itself included; none for nil).
RECURSIVE Subtree(_)
Subtree(n) ==
    IF n = 0 THEN {}
    ELSE {n} \cup Subtree(nodes[n].wild) \cup Subtree(nodes[n].catchAll)
             \cup UNION {Subtree(nodes[n].child[i]) : i \in 1..Len(nodes[n].child)}

\* At l the lookup is at a node whose path starts the rest of the request
\* path, and a static child of the node starts with the byte after it.
AtStaticChild(l) ==
    LET n == nodes[l.n]
    IN  /\ l.pc = "loop"
        /\ Len(l.path) > Len(n.path)
        /\ Upto(l.path, Len(n.path)) = n.path
        /\ \E i \in 1..Len(n.child) : n.firstBytes[i] = l.path[Len(n.path) + 1]

\* That static child.
StaticChild(l) ==
    LET n == nodes[l.n]
    IN  n.child[CHOOSE i \in 1..Len(n.child) : n.firstBytes[i] = l.path[Len(n.path) + 1]]

\* The node that the request was resolved at, or 0.
ResolvedAt(method, path) == getValue(nodes, pats, method, path).node

-----------------------------------------------------------------------------
(* C5: lookup does not backtrack.  Once the lookup of a request is at a    *)
(* node with a static child that starts with the next byte of the path,    *)
(* it goes to that child without binding a parameter, and neither goes to  *)
(* nor resolves the request in the subtree of that node's wildcard child;  *)
(* when the descent breaks off with no catch-all passed on the way, no     *)
(* handler is found for the request.                                       *)

NoBacktracking ==
    Answered =>
        LET t == DescentTrace(last.path)
        IN  /\ \A k \in 1..(Len(t) - 1) :
                  AtStaticChild(t[k]) =>
                      /\ t[k + 1].n = StaticChild(t[k])
                      /\ t[k + 1].params = t[k].params
                      /\ \A j \in (k + 1)..Len(t) :
                            t[j].n \notin Subtree(nodes[t[k].n].wild)
                      /\ ResolvedAt(last.method, last.path)
                            \notin Subtree(nodes[t[k].n].wild)
            /\ (t[Len(t)].pc = "break" /\ t[Len(t)].catchAll = 0) =>
                  /\ Handler(Router, last.method, last.path).h = NilHandler
                  /\ (last.h = notFound \/ last.h.kind = "Redirect")

\* A request that took a static child at a node with a wildcard child, and
\* whose descent then broke off with no catch-all passed: it is not found.
NoBacktrackingWitness ==
    /\ Answered
    /\ LET t == DescentTrace(last.path)
       IN  /\ \E k \in 1..(Len(t) - 1) :
                 /\ AtStaticChild(t[k])
                 /\ nodes[t[k].n].wild # 0
                 /\ Len(nodes[nodes[t[k].n].wild].handlers) > 0
           /\ t[Len(t)].pc = "break"
           /\ t[Len(t)].catchAll = 0
    /\ last.h = NotFound

-----------------------------------------------------------------------------
(* Definitions shared by the properties about catch-alls.                  *)

\* The catch-all child of the last node owning one that the descent for
\* the path went through, or 0.
RememberedCatchAll(path) ==
    LET d == Descent(path)
    IN  IF d.pc = "found" /\ nodes[d.n].catchAll # 0 THEN nodes[d.n].catchAll
        ELSE d.catchAll

\* The descent failed, or used up the path at a node that has no handler
\* usable for the method.
Unresolved(method, path) ==
    \/ Descent(path).pc = "break"
    \/ /\ Exhausted(path)
       /\ \A i \in 1..Len(nodes[Descent(path).n].handlers) :
             nodes[Descent(path).n].handlers[i].method \notin {"*", method}

\* The handlers that node n holds for the method: the exact entry's, or
\* with no exact entry the "*" entry's.
HandlersFor(n, method) ==
    LET exact == {e \in {nodes[n].handlers[i] : i \in 1..Len(nodes[n].handlers)} :
                     e.method = method}
        star  == {e \in {nodes[n].handlers[i] : i \in 1..Len(nodes[n].handlers)} :
                     e.method = "*"}
    IN  {e.handler : e \in IF exact # {} THEN exact ELSE star}

-----------------------------------------------------------------------------
(* C6 as stated: the catch-all is always tried.  When the descent of a     *)
(* request went through a node owning a catch-all child, and the descent   *)
(* failed or used up the path at a node without a handler usable for the   *)
(* method, the request is served by the remembered catch-all's handler for *)
(* the method when it has one.                                             *)

CatchAllAlwaysTried ==
    (/\ Answered
     /\ RememberedCatchAll(last.path) # 0
     /\ Unresolved(last.method, last.path)
     /\ HandlersFor(RememberedCatchAll(last.path), last.method) # {})
        => last.h \in HandlersFor(RememberedCatchAll(last.path), last.method)

-----------------------------------------------------------------------------
(* Definitions for a catch-all and a wildcard at the same level.           *)

\* Routes i and j have the same method and the same static prefix of
\* length k, which ends in a slash; after it route i has a catch-all and
\* route j a ':' wildcard, and both end there.
SameLevelAt(i, j, k) ==
    LET a == routes[i].pattern
        b == routes[j].pattern
    IN  /\ routes[i].method = routes[j].method
        /\ k >= 1 /\ k < Len(a) /\ k < Len(b)
        /\ Upto(a, k) = Upto(b, k)
        /\ Static(Upto(a, k))
        /\ a[k] = "/"
        /\ a[k + 1] = "*"
        /\ b[k + 1] = ":"
        /\ IndexByte(From(b, k), "/") = 0

\* The pairs of such routes when the router holds no route but them, and
\* the last call is a request with their method and prefix.
SameLevelRequests ==
    { b \in (1..Len(routes)) \X (1..Len(routes)) \X (1..MaxPathLen) :
        /\ SameLevelAt(b[1], b[2], b[3])
        /\ \A x \in 1..Len(routes) : x \in {b[1], b[2]}
        /\ Answered
        /\ last.method = routes[b[1]].method
        /\ Len(last.path) >= b[3]
        /\ Upto(last.path, b[3]) = Upto(routes[b[1]].pattern, b[3]) }

-----------------------------------------------------------------------------
(* C7: with routes P*c and P:w of one method, P ending in a slash, and no  *)
(* other route in the router: a path P+s with s one non-empty segment is   *)
(* served by the wildcard route with w = s; a path P+s with a slash in s   *)
(* is served by the catch-all route with c = "/"+s; and the path P is      *)
(* served by the catch-all route with c = "/".                             *)

-----------------------------------------------------------------------------
(* Definitions for the output of Pattern.Path.                             *)

\* The first n elements of the pattern with the values in the place of the
\* placeholders, joined.
Spliced(pat, vals, n) ==
    Concat([i \in 1..n |-> IF pat.static[i] # <<>> THEN pat.static[i]
                           ELSE vals[((i - 1) \div 2) + 1]])

\* Path was called on a catch-all pattern with a value for each key, the
\* values of the ':' keys not empty.
BuiltCatchAll ==
    /\ Built
    /\ CatchAll(pats[last.pat])
    /\ Len(last.vals) = Len(Keys(pats[last.pat]))
    /\ \A i \in 1..(Len(last.vals) - 1) : last.vals[i] # <<>>

-----------------------------------------------------------------------------
(* C8 as stated: Path on a catch-all pattern requires the last value to    *)
(* start with a slash, and puts that value, its leading slash included,    *)
(* directly after the text that precedes it.                               *)

CatchAllValueLiteral ==
    BuiltCatchAll =>
        LET pat == pats[last.pat]
            val == last.vals[Len(last.vals)]
        IN  IF HasPrefix(val, "/")
            THEN /\ last.err = ""
                 /\ last.out = Spliced(pat, last.vals, Len(pat.static) - 1) \o val
            ELSE last.err = "catch-all parameter without / prefix"

(* C8: Path on a catch-all pattern requires the last value to start with a *)
(* slash, and puts that value without its leading slash directly after the *)
(* text that precedes it, which ends in a slash.                           *)

CatchAllValueTrimmed ==
    BuiltCatchAll =>
        LET pat == pats[last.pat]
            val == last.vals[Len(last.vals)]
            pre == Spliced(pat, last.vals, Len(pat.static) - 1)
        IN  IF HasPrefix(val, "/")
            THEN /\ last.err = ""
                 /\ HasSuffix(pre, "/")
                 /\ last.out = pre \o Tail(val)
            ELSE last.err = "catch-all parameter without / prefix"

\* A path built for a catch-all pattern with a ':' key before the
\* catch-all, from a catch-all value longer than the slash.
CatchAllValueTrimmedWitness ==
    /\ BuiltCatchAll
    /\ Len(last.vals) = 2
    /\ HasPrefix(last.vals[2], "/")
    /\ Len(last.vals[2]) > 1
    /\ last.err = ""

-----------------------------------------------------------------------------
(* Definitions for method dispatch and duplicate routes.                   *)

\* The entries of node n.
Entries(n) == {nodes[n].handlers[i] : i \in 1..Len(nodes[n].handlers)}

\* Route k has an entry, with its method, pattern and handler, at a node.
Kept(k) ==
    \E n \in 1..Len(nodes) :
        [method |-> routes[k].method, handler |-> HandlerOf(k), pattern |-> k]
            \in Entries(n)

\* The shape of a pattern string: the pattern with its variable names
\* left out.
Shape(pattern) ==
    LET parsed == ParsePattern(pattern)
    IN  [static |-> parsed.pat.static, catchAll |-> parsed.pat.catchAll]

\* In the list of handlers of every node the "*" entry, if any, is last,
\* and no method has two entries.
StarLast ==
    \A n \in 1..Len(nodes) :
        \A i \in 1..Len(nodes[n].handlers) :
            /\ nodes[n].handlers[i].method = "*" => i = Len(nodes[n].handlers)
            /\ \A j \in 1..Len(nodes[n].handlers) :
                  nodes[n].handlers[i].method = nodes[n].handlers[j].method => i = j

-----------------------------------------------------------------------------
(* C9: in whatever order a "*" entry and exact entries were registered, a  *)
(* request resolved at a node is served by the node's exact entry for its  *)
(* method if there is one and otherwise by the node's "*" entry; every     *)
(* registered route keeps its entry, and the "*" entry is last in every    *)
(* node's list of handlers.                                                *)

MethodDispatch ==
    /\ StarLast
    /\ \A k \in 1..Len(routes) : Kept(k)
    /\ (Answered /\ Exhausted(last.path)) =>
          LET n == Descent(last.path).n
          IN  HandlersFor(n, last.method) # {} =>
                  last.h \in HandlersFor(n, last.method)

\* A request served by the exact entry of a node where the "*" entry was
\* registered first, while another method is still served by "*".
MethodDispatchWitness ==
    /\ Served
    /\ Exhausted(last.path)
    /\ last.h.method = last.method
    /\ LET n == Descent(last.path).n
       IN  /\ Len(nodes[n].handlers) >= 2
           /\ \E i, j \in 1..Len(routes) :
                 /\ i < j
                 /\ routes[i].method = "*"
                 /\ routes[j].method = last.method
                 /\ routes[i].pattern = routes[j].pattern
                 /\ HandlerOf(j) = last.h
                 /\ HandlerToUse(Router, "CONNECT", last.path).h = HandlerOf(i)

-----------------------------------------------------------------------------
(* C10: Handle of a pattern that parses fails with "duplicate route"       *)
(* exactly when a route registered before has the same method string and   *)
(* the same pattern up to the names of its variables.                      *)

DuplicateRoute ==
    (Handled /\ last.err # "cannot parse pattern") =>
        LET earlier == IF last.err = "" THEN Len(routes) - 1 ELSE Len(routes)
        IN  (last.err = "duplicate route") <=>
                \E k \in 1..earlier :
                    /\ routes[k].method = last.method
                    /\ Shape(routes[k].pattern) = Shape(last.path)

\* Handle fails for a pattern that differs from a registered one only in
\* the name of its variable.
DuplicateRouteWitness ==
    /\ Handled
    /\ last.err = "duplicate route"
    /\ \A k \in 1..Len(routes) : routes[k].pattern # last.path

-----------------------------------------------------------------------------
(* C11 as stated: HandlerToUse is total.  For every method, every path and *)
(* every setting of the fields NotFound and MethodNotAllowed, nil too, it  *)
(* returns a handler that is not nil, and it does not panic.               *)

HandlerToUseTotal ==
    Answered => (last.h # NilHandler /\ last.err = "")

-----------------------------------------------------------------------------
(* Definitions for the answers to requests that no handler serves.         *)

\* Handler finds no handler for the request.
NoHandler(method, path) == Handler(Router, method, path).h = NilHandler

\* The node that lookup returns for the path, or 0.
NodeReached(path) == lookup(nodes, path).node

\* The lookup of the path ends at a node that has handlers.
HasHandlers(path) ==
    NodeReached(path) # 0 /\ Entries(NodeReached(path)) # {}

\* The path with its trailing slash toggled.
Toggled(path) ==
    IF HasSuffix(path, "/") THEN Upto(path, Len(path) - 1) ELSE Append(path, "/")

\* The code of a redirect of a request with the method.
RedirectCode(method) == IF method = "GET" THEN 301 ELSE 307

\* The request is answered without parameters and without a pattern.
NoParams == last.p = <<>> /\ last.rpat = 0

-----------------------------------------------------------------------------
(* C12: when no handler is found for a request but the lookup of its path  *)
(* ends at a node that has a handler for another method, HandlerToUse      *)
(* returns the value of the field MethodNotAllowed, with no parameters and *)
(* no pattern, whether the path is clean or not and whatever its trailing  *)
(* slash.                                                                  *)

OtherMethodsNotAllowed ==
    (Answered /\ NoHandler(last.method, last.path) /\ HasHandlers(last.path)) =>
        /\ last.h = methodNotAllowed
        /\ NoParams

\* A request with a path that is not clean, answered with MethodNotAllowed.
OtherMethodsNotAllowedWitness ==
    /\ Answered
    /\ NoHandler(last.method, last.path)
    /\ HasHandlers(last.path)
    /\ CleanPath(last.path) # last.path
    /\ last.method # "CONNECT"
    /\ last.h = MethodNotAllowed

-----------------------------------------------------------------------------
(* Definitions for requests that end at a node without handlers.           *)

\* The lookup of the path ends at a node that has no handler for any
\* method, and Handler finds no handler for the request.
AtInteriorNode ==
    /\ Answered
    /\ NodeReached(last.path) # 0
    /\ Entries(NodeReached(last.path)) = {}
    /\ NoHandler(last.method, last.path)

\* The lookup of the path ends at a node that holds a handler for the
\* method (its own entry for the method, or its "*" entry).
NodeServes(method, path) ==
    NodeReached(path) # 0 /\ HandlersFor(NodeReached(path), method) # {}

\* The answer to a request that is not served and does not get
\* MethodNotAllowed.
Fallthrough(method, path) ==
    IF method = "CONNECT" \/ path = <<"/">> THEN notFound
    ELSE IF CleanPath(path) # path THEN Redirect(CleanPath(path), RedirectCode(method))
    ELSE IF NodeServes(method, Toggled(path))
    THEN Redirect(Toggled(path), RedirectCode(method))
    ELSE notFound

-----------------------------------------------------------------------------
(* C13 as stated: when the lookup of a request ends at a node that has no  *)
(* handler for any method, HandlerToUse returns the not-found handler,     *)
(* before any redirect is considered.                                      *)

InteriorNodeNotFound ==
    AtInteriorNode => last.h = notFound

(* C13: when the lookup of a request ends at a node that has no handler    *)
(* for any method, HandlerToUse goes on as when no node is found: it       *)
(* returns the not-found handler for CONNECT and for the path "/", else a  *)
(* redirect to the clean path when the path is not clean, else a redirect  *)
(* to the path with its trailing slash toggled when a node holds a handler *)
(* for the method there, and else the not-found handler.                   *)

InteriorNodeFallsThrough ==
    AtInteriorNode =>
        /\ last.h = Fallthrough(last.method, last.path)
        /\ NoParams

\* A request that ends at a node without handlers and is redirected to
\* the path with a slash appended.
InteriorNodeFallsThroughWitness ==
    /\ AtInteriorNode
    /\ last.h = Redirect(Append(last.path, "/"), 301)

-----------------------------------------------------------------------------
(* Definitions for the redirects.                                          *)

\* The request is not served, gets no MethodNotAllowed, and is one that
\* may be redirected.
Redirectable ==
    /\ Answered
    /\ NoHandler(last.method, last.path)
    /\ ~HasHandlers(last.path)
    /\ last.method # "CONNECT"
    /\ last.path # <<"/">>

-----------------------------------------------------------------------------
(* C14 as stated: a request that may be redirected and whose path is clean *)
(* is redirected to the path with its trailing slash toggled, with code    *)
(* 301 for GET and 307 otherwise, whenever the toggled path has a handler  *)
(* for the method.                                                         *)

SlashRedirectWhenServed ==
    (/\ Redirectable
     /\ CleanPath(last.path) = last.path
     /\ ~NoHandler(last.method, Toggled(last.path)))
        => /\ last.h = Redirect(Toggled(last.path), RedirectCode(last.method))
           /\ NoParams

-----------------------------------------------------------------------------
(* C15: a request that may be redirected and whose path is not clean is    *)
(* redirected to the clean path, with code 301 for GET and 307 otherwise,  *)
(* whether or not the clean path has a handler, and whatever the path with *)
(* its trailing slash toggled leads to.                                    *)

CleanRedirect ==
    (Redirectable /\ CleanPath(last.path) # last.path) =>
        /\ last.h = Redirect(CleanPath(last.path), RedirectCode(last.method))
        /\ NoParams

\* A request other than GET redirected to a clean path that has no
\* handler.
CleanRedirectWitness ==
    /\ Redirectable
    /\ CleanPath(last.path) # last.path
    /\ last.method # "GET"
    /\ Len(routes) > 0
    /\ NoHandler(last.method, CleanPath(last.path))
    /\ last.h.kind = "Redirect"

-----------------------------------------------------------------------------
(* C16: a request with the method CONNECT or the path "/" is never         *)
(* answered with a Redirect: it gets a registered handler, the             *)
(* MethodNotAllowed field or the NotFound field.                           *)

NoRedirectForConnectOrRoot ==
    (Answered /\ (last.method = "CONNECT" \/ last.path = <<"/">>)) =>
        /\ last.h.kind # "Redirect"
        /\ \/ \E k \in 1..Len(routes) : last.h = HandlerOf(k)
           \/ last.h = methodNotAllowed /\ NoParams
           \/ last.h = notFound /\ NoParams

\* A CONNECT request answered with NotFound whose path, toggled, has a
\* handler for CONNECT.
NoRedirectForConnectOrRootWitness ==
    /\ Answered
    /\ last.method = "CONNECT"
    /\ last.h = NotFound
    /\ CleanPath(last.path) = last.path
    /\ NodeServes("CONNECT", Toggled(last.path))

-----------------------------------------------------------------------------
(* Definitions for the properties of ParsePattern.                         *)

\* ParsePattern has returned / has returned a pattern.
ParseReturned == last.op = "ParsePattern"

Parsed == ParseReturned /\ last.err = ""

Markers == {":", "*"}

\* Some ':' or '*' of p does not come directly after a slash.
MarkerNotAfterSlash(p) ==
    \E i \in 1..Len(p) : p[i] \in Markers /\ (i = 1 \/ p[i - 1] # "/")

\* Some segment of p starts with '*' and is followed by more path.
CatchAllNotAtEnd(p) ==
    \E i \in 2..Len(p) :
        /\ p[i] = "*"
        /\ p[i - 1] = "/"
        /\ \E j \in (i + 1)..Len(p) : p[j] = "/"

\* The segment starts with ':' or '*'.
IsPlaceholder(seg) == Len(seg) > 0 /\ seg[1] \in Markers

\* The names of the placeholder segments of p, in their order in p.
NamesIn(p) ==
    LET segs == SelectSeq(Segments(p), IsPlaceholder)
    IN  [i \in 1..Len(segs) |-> Tail(segs[i])]

-----------------------------------------------------------------------------
(* C17 as stated: ParsePattern returns an error for every string in which  *)
(* some ':' or '*' does not come directly after a slash, and for every     *)
(* string in which a '*' segment is followed by more path; so no variable  *)
(* name of a pattern it returns holds a ':' or a '*', in the last segment  *)
(* as in the others.                                                       *)

MarkersRejected ==
    ParseReturned =>
        /\ (MarkerNotAfterSlash(last.path) \/ CatchAllNotAtEnd(last.path))
              => last.err # ""
        /\ last.err = "" =>
              \A i \in 1..Len(Keys(pats[last.rpat])) :
                  \A j \in 1..Len(Keys(pats[last.rpat])[i]) :
                      Keys(pats[last.rpat])[i][j] \notin Markers

-----------------------------------------------------------------------------
(* C18: for every string p that ParsePattern returns a pattern for, the    *)
(* String of that pattern is p, and its Keys are the names of the          *)
(* placeholders of p in the order they have in p.                          *)

StringRoundTrip ==
    /\ last.op = "String" => last.out = last.path
    /\ Parsed => Keys(pats[last.rpat]) = NamesIn(last.path)

\* The String of a catch-all pattern with a ':' placeholder before the
\* catch-all has been taken.
StringRoundTripWitness ==
    /\ last.op = "String"
    /\ CatchAll(pats[last.rpat])
    /\ Len(Keys(pats[last.rpat])) = 2

-----------------------------------------------------------------------------
(* C19: Pattern.Path returns an error exactly when the number of values is *)
(* not the number of keys (more as well as fewer), or the value of a ':'   *)
(* placeholder is empty, or the value of the catch-all placeholder does    *)
(* not start with a slash; in every other case it returns a path and no    *)
(* error.                                                                  *)

PathErrors ==
    Built =>
        LET pat == pats[last.pat]
        IN  /\ (last.err # "") <=> ~ValidValues(pat, last.vals)
            /\ last.err # "" => last.out = <<>>
            /\ last.err = "" =>
                  Len(last.out) =
                      pat.staticSize + Len(Concat(last.vals))
                          - (IF CatchAll(pat) THEN 1 ELSE 0)

\* Path is refused for one value too many.
PathErrorsWitness ==
    /\ Built
    /\ Len(last.vals) = Len(Keys(pats[last.pat])) + 1
    /\ Len(Keys(pats[last.pat])) > 0
    /\ last.err # ""

-----------------------------------------------------------------------------
(* C20: whenever HandlerToUse returns a registered handler, the pattern it *)
(* returns is the one Handle returned when that handler was registered,    *)
(* filling the keys raises no panic, and the parameters returned have one  *)
(* entry for each key of that pattern, with the keys of the pattern in     *)
(* their order; so too when two methods were registered at one node with   *)
(* different variable names.                                               *)

ParamsOfPattern ==
    Served =>
        /\ last.err = ""
        /\ last.rpat \in 1..Len(routes)
        /\ routes[last.rpat].pat = last.rpat
        /\ HandlerOf(last.rpat) = last.h
        /\ Len(last.p) = Len(Keys(pats[last.rpat]))
        /\ KeysOf(last.p) = Keys(pats[last.rpat])

\* A request is served at a node where another method was registered
\* before with another variable name, and it gets the name of its own
\* pattern.
ParamsOfPatternWitness ==
    /\ Served
    /\ Len(last.p) = 1
    /\ LET n == Descent(last.path).n
       IN  /\ Exhausted(last.path)
           /\ Len(nodes[n].handlers) = 2
           /\ \E k \in 1..Len(routes) :
                 /\ k < last.rpat
                 /\ routes[k].method # last.method
                 /\ HandlerToUse(Router, routes[k].method, last.path).pat = k
                 /\ Keys(pats[k]) # Keys(pats[last.rpat])
                 /\ KeysOf(last.p) = Keys(pats[last.rpat])

-----------------------------------------------------------------------------
(* C22: after any sequence of Handle calls, node splits included, every    *)
(* node has as many firstBytes as children and its firstBytes are pairwise *)
(* distinct, so that at most one static child matches any next byte; and   *)
(* the path of the root is always "/".                                     *)

StaticChildrenDistinct ==
    /\ nodes[1].path = <<"/">>
    /\ \A n \in 1..Len(nodes) :
          /\ Len(nodes[n].firstBytes) = Len(nodes[n].child)
          /\ \A i, j \in 1..Len(nodes[n].firstBytes) :
                i # j => nodes[n].firstBytes[i] # nodes[n].firstBytes[j]
          /\ \A i, j \in 1..Len(nodes[n].child) :
                i # j => nodes[n].child[i] # nodes[n].child[j]

\* Handle has returned, and below the root a node that a split has made
\* has three static children.
StaticChildrenDistinctWitness ==
    /\ Handled
    /\ last.err = ""
    /\ \E n \in 2..Len(nodes) :
          /\ Len(nodes[n].child) = 3
          /\ nodes[n].path = <<>>

-----------------------------------------------------------------------------
(* C23: after any sequence of Handle calls every catch-all node is a leaf: *)
(* its path is empty, it has no static child, no wildcard child and no     *)
(* catch-all child, and it holds at least one handler.  A node split moves *)
(* the pointer to the catch-all node and nothing into the node itself.     *)

\* The nodes that are the catch-all child of some node.
CatchAllNodes == {nodes[n].catchAll : n \in 1..Len(nodes)} \ {0}

CatchAllLeaf ==
    \A c \in CatchAllNodes :
        /\ nodes[c].path = <<>>
        /\ nodes[c].child = <<>>
        /\ nodes[c].firstBytes = <<>>
        /\ nodes[c].wild = 0
        /\ nodes[c].catchAll = 0
        /\ Len(nodes[c].handlers) >= 1
        /\ Cardinality({n \in 1..Len(nodes) : nodes[n].catchAll = c}) = 1
        /\ \A n \in 1..Len(nodes) :
              /\ nodes[n].wild # c
              /\ \A i \in 1..Len(nodes[n].child) : nodes[n].child[i] # c

\* Handle of a static route has just split a node that owned a catch-all
\* child: the owner is now the child under '/' of the node that holds the
\* new handler.
CatchAllLeafWitness ==
    /\ Handled
    /\ last.err = ""
    /\ IndexMarker(last.path) = 0
    /\ \E m \in 2..Len(nodes) : \E i \in 1..Len(nodes[m].child) :
          /\ nodes[m].handlers # <<>>
          /\ nodes[m].handlers[1].handler = pathHandler(last.method, last.path)
          /\ nodes[m].firstBytes[i] = "/"
          /\ nodes[nodes[m].child[i]].catchAll \in CatchAllNodes
          /\ nodes[m].child[i] = Len(nodes)

-----------------------------------------------------------------------------
(* C24: in every result of a lookup, the value bound to a ':' wildcard is  *)
(* not empty and holds no '/', and the value bound to a '*' catch-all      *)
(* starts with '/': the byte of the original path just before the          *)
(* remainder left unmatched at the catch-all's owner is '/'.               *)

\* A value of a ':' wildcard, and a value of a catch-all.
SegmentValue(v) == v # <<>> /\ IndexByte(v, "/") = 0

CatchAllValue(v) == HasPrefix(v, "/")

LookupValues ==
    Answered =>
        LET found == lookup(nodes, last.path)
            d     == Descent(last.path)
            k     == Len(found.params)
        IN  /\ \A i \in 1..k :
                  IF i = k /\ found.node \in CatchAllNodes
                  THEN CatchAllValue(found.params[i].Value)
                  ELSE SegmentValue(found.params[i].Value)
            /\ FellBack(last.path) =>
                  /\ Len(d.catchAllPath) < Len(d.origPath)
                  /\ d.origPath[Len(d.origPath) - Len(d.catchAllPath)] = "/"
            /\ Served =>
                  \A i \in 1..Len(last.p) :
                      IF i = Len(last.p) /\ CatchAll(pats[last.rpat])
                      THEN CatchAllValue(last.p[i].Value)
                      ELSE SegmentValue(last.p[i].Value)

\* A request is served by the catch-all that lookup fell back on, with a
\* value of two segments.
LookupValuesWitness ==
    /\ Served
    /\ FellBack(last.path)
    /\ CatchAll(pats[last.rpat])
    /\ LET v == last.p[Len(last.p)].Value
       IN  Len(v) = 3 /\ v[3] # "/" /\ v[2] = "/"

-----------------------------------------------------------------------------
(* C25: ParsePattern never reaches panic("unexpected empty path segment"). *)
(* For every string it returns a pattern or an error: the checks before    *)
(* the loop leave no string whose rest starts with a marker.               *)

NoEmptySegmentPanic ==
    ParseReturned =>
        /\ last.err # "panic: unexpected empty path segment"
        /\ last.err = "" <=> last.rpat # 0
        /\ last.err = "" => pats = <<ParsePattern(last.path).pat>>

\* ParsePattern has returned an error for a string that starts with a
\* marker.
NoEmptySegmentPanicWitness ==
    /\ ParseReturned
    /\ last.path # <<>>
    /\ last.path[1] \in {":", "*"}
    /\ last.err = "pattern is not clean"

-----------------------------------------------------------------------------
(* C27: a Handle call that fails, for a pattern that does not parse or for *)
(* a duplicate route, leaves the router as it was: no node is split or     *)
(* made, no handler entry is added or moved, no pattern is kept and        *)
(* maxParams keeps its value, so that every request is answered after the  *)
(* call as it was before.                                                  *)

FailedHandleFrame ==
    [][(last'.op = "Handle" /\ last'.err # "") =>
          /\ nodes' = nodes
          /\ pats' = pats
          /\ maxParams' = maxParams
          /\ routes' = routes
          /\ \A method \in RequestMethods, path \in Paths :
                HandlerToUse(Router', method, path) = HandlerToUse(Router, method, path)]_vars

\* Handle has failed for a duplicate route, in a router that holds two
\* routes or more.
FailedHandleFrameWitness ==
    /\ Handled
    /\ last.err = "duplicate route"
    /\ Len(routes) >= 2
    /\ Len(nodes) >= 4

-----------------------------------------------------------------------------
(* C28: redirects do not loop.  When the path of a Redirect that           *)
(* HandlerToUse returned is requested again with the same method, and so   *)
(* on, an answer that is not a Redirect is reached after two redirects at  *)
(* most, a redirect to the clean path and then a trailing-slash redirect;  *)
(* and the target of every trailing-slash redirect is answered at once by  *)
(* a handler registered for the method.                                    *)

IsRedirect(h) == h.kind = "Redirect"

\* The answer to the request for the target of the redirect h.
Followed(method, h) == HandlerToUse(Router, method, h.Path)

\* The redirect h, the answer to the request for path, is the
\* trailing-slash redirect.
IsSlashRedirect(path, h) == IsRedirect(h) /\ CleanPath(path) = path

RedirectsEnd ==
    (Answered /\ IsRedirect(last.h)) =>
        LET r1 == Followed(last.method, last.h)
        IN  /\ IsSlashRedirect(last.path, last.h) =>
                  /\ last.h.Path = Toggled(last.path)
                  /\ r1.h.kind = "pathHandler"
                  /\ r1.h.method \in {last.method, "*"}
            /\ IsRedirect(r1.h) =>
                  /\ ~IsSlashRedirect(last.path, last.h)
                  /\ IsSlashRedirect(last.h.Path, r1.h)
                  /\ Followed(last.method, r1.h).h.kind = "pathHandler"
                  /\ Followed(last.method, r1.h).h.method \in {last.method, "*"}

\* A request is redirected to its clean path, and the request for the
\* clean path is redirected to the path with a trailing slash.
RedirectsEndWitness ==
    /\ Answered
    /\ IsRedirect(last.h)
    /\ IsRedirect(Followed(last.method, last.h).h)

-----------------------------------------------------------------------------
(* C29: a registered route is never lost by later registrations.  After    *)
(* any sequence of Handle calls, with the node splits they cause, for      *)
(* every registered route (m, P) where P has no wildcard and m is not "*", *)
(* HandlerToUse(m, P) returns the handler registered for (m, P), with no   *)
(* parameters and with the pattern of P.                                   *)

\* The registered routes with a static pattern and a method of their own.
StaticRoutes ==
    {k \in 1..Len(routes) : IndexMarker(routes[k].pattern) = 0 /\ routes[k].method # "*"}

StaticRouteKept ==
    \A k \in StaticRoutes :
        LET res == HandlerToUse(Router, routes[k].method, routes[k].pattern)
        IN  /\ res.h = HandlerOf(k)
            /\ res.p = <<>>
            /\ res.pat = routes[k].pat
            /\ ~res.panic

\* The router as it was before the last successful Handle call.
Before == Registered(New, SubSeq(RouteSeq, 1, Len(routes) - 1))

\* The last Handle call has split the node that held the handler of a
\* static route: the handler is no longer in the heap cell it was in.
StaticRouteKeptWitness ==
    /\ Handled
    /\ last.err = ""
    /\ \E k \in StaticRoutes : \E c \in 1..Len(Before.nodes) :
          /\ k < Len(routes)
          /\ \E i \in 1..Len(Before.nodes[c].handlers) :
                Before.nodes[c].handlers[i].handler = HandlerOf(k)
          /\ nodes[c].handlers = <<>>

-----------------------------------------------------------------------------
(* C30 as stated: when a Router is the handler of a catch-all route of an  *)
(* outer Router, ServeRoute routes on the value of the catch-all, which is *)
(* the last parameter and starts with '/'; and the path of any Redirect    *)
(* the inner router answers with, requested of the outer router, is routed *)
(* to the inner router again: the target keeps the mount prefix.           *)

\* The outer router has called ServeRoute of the inner router.
Mounted == last.op = "ServeRoute"

MountedRedirectKept ==
    Mounted =>
        /\ HasPrefix(last.vals[1], "/")
        /\ last.path = <<"/", "a">> \o last.vals[1]
        /\ IsRedirect(last.h) =>
              HandlerToUse(Outer, last.method, last.h.Path).h = MountHandler

-----------------------------------------------------------------------------
(* C21: once registration has finished, HandlerToUse calls that interleave *)
(* in any number and order leave the tree, maxParams, the handler tables   *)
(* and the registered patterns as they are, share no parameter array with  *)
(* each other, and each returns what it returns when it runs alone.        *)

\* The arrays that the slices of the call of goroutine p point to.
Arrays(p) ==
    {calls[p].l.params.buf, calls[p].l.catchAllParams.buf, calls[p].res.p.buf} \ {0}

NoSharedArrays == \A p, q \in Procs : p # q => Arrays(p) \cap Arrays(q) = {}

\* The local variables of a lookup, with the elements of its slices in
\* the place of the slices.
Abstract(l) ==
    [l EXCEPT !.params = Elems(bufs, l.params),
              !.catchAllParams = Elems(bufs, l.catchAllParams)]

\* The call of goroutine p is where the call made alone is at some time,
\* and has returned what the call made alone returns.
SameAsAlone(p) ==
    /\ calls[p].pc = "lookup" =>
          \E i \in 1..Len(DescentTrace(calls[p].path)) :
              DescentTrace(calls[p].path)[i] = Abstract(calls[p].l)
    /\ calls[p].pc = "done" =>
          LET alone == HandlerToUse(Router, calls[p].method, calls[p].path)
          IN  /\ calls[p].res.h = alone.h
              /\ Elems(bufs, calls[p].res.p) = alone.p
              /\ calls[p].res.pat = alone.pat
              /\ calls[p].res.panic = alone.panic

ConcurrentCalls ==
    /\ [](NoSharedArrays /\ \A p \in Procs : SameAsAlone(p))
    /\ [][UNCHANGED <<nodes, pats, maxParams, routes, notFound, methodNotAllowed>>]_vars

\* One call has returned two parameters, and has not handed them on yet,
\* while the lookup of another call has bound a parameter of its own.
ConcurrentCallsWitness ==
    \E p, q \in Procs :
        /\ calls[p].pc = "done"
        /\ calls[p].res.p.len = 2
        /\ calls[q].pc = "lookup"
        /\ calls[q].l.params.len >= 1
        /\ calls[q].l.catchAllParams.buf # 0

-----------------------------------------------------------------------------
(* C26: when a descent passes nodes that own a catch-all child and then    *)
(* fails, the fallback uses the deepest of them, the one passed last.  Its *)
(* value is the end of the original path from the '/' just before the      *)
(* rest that was unmatched at that node, and the parameters before it are  *)
(* the wildcard values collected up to that node: the values collected     *)
(* deeper in the failed descent are not in the result.                     *)

\* The iteration of lookup that starts in l passes a node that owns a
\* catch-all child, with some of the path left.
Remembers(l) ==
    /\ l.pc = "loop"
    /\ Len(l.path) > Len(nodes[l.n].path)
    /\ Upto(l.path, Len(nodes[l.n].path)) = nodes[l.n].path
    /\ nodes[l.n].catchAll # 0

\* The iterations of the descent for the path that pass such a node.
Passed(path) ==
    {i \in 1..Len(DescentTrace(path)) : Remembers(DescentTrace(path)[i])}

\* The last of them.
Deepest(path) == CHOOSE i \in Passed(path) : \A j \in Passed(path) : j <= i

\* The values that the claim gives the result of the failed descent.
DeepestValues(path) ==
    LET l    == DescentTrace(path)[Deepest(path)]
        rest == Len(l.path) - Len(nodes[l.n].path)
    IN  Append(ValuesOf(l.params), From(path, Len(path) - rest - 1))

\* The catch-all node that the claim gives it.
DeepestNode(path) == nodes[DescentTrace(path)[Deepest(path)].n].catchAll

DeepestCatchAll ==
    \A p \in Procs :
        (calls[p].pc = "done" /\ FellBack(calls[p].path)) =>
            LET c == nodes[DeepestNode(calls[p].path)]
                e == entryForMethod(c, calls[p].method)
            IN  /\ Passed(calls[p].path) # {}
                /\ IF e = 0 THEN calls[p].res.h = methodNotAllowed
                   ELSE /\ calls[p].res.h = c.handlers[e].handler
                        /\ calls[p].res.pat = c.handlers[e].pattern
                        /\ ValuesOf(Elems(bufs, calls[p].res.p))
                               = DeepestValues(calls[p].path)
                        /\ KeysOf(Elems(bufs, calls[p].res.p))
                               = Keys(pats[c.handlers[e].pattern])

\* A call has returned from a descent that passed two such nodes, bound a
\* wildcard below the second and then failed.
DeepestCatchAllWitness ==
    \E p \in Procs :
        /\ calls[p].pc = "done"
        /\ FellBack(calls[p].path)
        /\ Cardinality(Passed(calls[p].path)) >= 2
        /\ Len(Descent(calls[p].path).params)
               > Len(DescentTrace(calls[p].path)[Deepest(calls[p].path)].params)
        /\ calls[p].res.h.kind = "pathHandler"
        /\ calls[p].res.p.len = 2

====
